---- MODULE Spec2Model ----
(***************************************************************************)
(* A state-machine model of mne.preprocessing.maxwell.maxwell_filter and   *)
(* of the helpers that decide its control flow (input triage, head         *)
(* position validation, buffer limits, pose sub-intervals, decomposition   *)
(* cache, condition-number policy, processing history), with the numerical *)
(* routines, the regularization sweep and the column layout of _sss_basis  *)
(* modelled on their own.                                                  *)
(*                                                                         *)
(* Time is counted in ticks, SecondTicks of them in a second; a recording  *)
(* has one sample every TicksPerSample ticks.  Poses are small integers:   *)
(* DevPose is the pose of                                                  *)
(* the recording's info['dev_head_t'], 1..NPoses are poses carried by the  *)
(* rows of a head-position array.  Python's None is NoneQ.                 *)
(***************************************************************************)
EXTENDS Integers, Sequences, FiniteSets, TLC

\* ----------------------------------------------------------------- bounds
MaxSamples == 3
MaxPos == 2
NPoses == 2
TicksPerSample == 2
FirstSamp == 1
MaxRuns == 2
\* recording lengths of the runs that vary the other arguments, and of the
\* runs that vary only the recording and buffer lengths
MaxRunSamples == 2
MaxLimSamples == 7
\* longest recording of the calls that vary the regularization
MaxRegSamples == 1
\* ticks in one second: the resolution of the model's clock
SecondTicks == 2000

\* ------------------------------------------------------ program constants
\* 1e-3 s, the slack of _check_pos, in ticks
TolTicks == SecondTicks \div 1000
\* 10. s, the chunk length used when st_duration is None, in ticks
ChunkTicks == 10 * SecondTicks
\* the condition number from which bad_condition acts
CondLimit == 1000
\* the number of cHPI result channels appended by _copy_preload_add_channels
NKinds == 9

\* Python's None where a pose (trans / quat row) is expected
NoneQ == -1
\* np.zeros(...) content of a freshly appended cHPI channel
PosZero == -2
\* np.empty(...) content: whatever the allocator left there
PosEmpty == -3

DevPose == 0
Poses == 1..NPoses

\* ---------------------------------------------------------------- helpers
Min(x, y) == IF x <= y THEN x ELSE y

Max(x, y) == IF x >= y THEN x ELSE y

\* np.round(num / den) for den > 0: round half to even
RoundHalfEven(num, den) ==
    LET q == num \div den
        r == num - q * den
    IN  IF 2 * r < den THEN q
        ELSE IF 2 * r > den THEN q + 1
        ELSE IF q % 2 = 0 THEN q ELSE q + 1

\* raw.time_as_index(t, use_rounding=True): seconds (ticks) to sample index
TimeAsIndex(t) == RoundHalfEven(t, TicksPerSample)

\* t_off = raw.first_samp / raw.info['sfreq'], in ticks
TOff == FirstSamp * TicksPerSample

\* _time_mask(t, tmin, tmax=None, sfreq): tmin is pushed to half a sample
\* before the nearest sample boundary; compared in half ticks.
TimeMask(t, tmin) ==
    2 * t >= 2 * RoundHalfEven(tmin, TicksPerSample) * TicksPerSample
             - TicksPerSample

\* np.array_equal(t, np.unique(t)): t is sorted and has no repeated value
UniqueAscendingLoose(t) == \A i \in 1..(Len(t) - 1) : t[i] <= t[i + 1]

UniqueAscending(t) == \A i \in 1..(Len(t) - 1) : t[i] < t[i + 1]


\* int(round(x)) of the Python interpreter running the code: Python 3 rounds
\* a half to even, Python 2 away from zero; both builds are supported.
PyRound(num, den) ==
    LET q == num \div den
        r == num - q * den
    IN  IF 2 * r = den
        THEN {RoundHalfEven(num, den), IF num >= 0 THEN q + 1 ELSE q}
        ELSE {RoundHalfEven(num, den)}

\* ------------------------------------------------------------ exceptions
NoErr == [cls |-> "", at |-> ""]

Raise(cls, at) == [cls |-> cls, at |-> at]

\* --------------------------------------------------- _check_pos (739-771)
\* A head_pos argument: kind "none" (None), "list" (not an ndarray),
\* "badshape" (ndarray, not (N, 10)) or "array" with rows [t, q]: t the
\* time column in ticks, q the pose carried by the row.
NoPos == [kind |-> "none", rows |-> << >>]

PosT(pos) == [i \in 1..Len(pos.rows) |-> pos.rows[i].t]

PosQ(pos) == [i \in 1..Len(pos.rows) |-> pos.rows[i].q]

\* what _check_pos returns: [None, np.array([-1])] or
\* [dev_head_ts, t - t_off, pos[:, 1:]]
CheckedNone == [given |-> FALSE, t |-> << -SecondTicks >>, q |-> << >>]

CheckPosErrNoTimeCheck(pos, head_frame) ==
    IF pos.kind = "none" THEN NoErr
    ELSE IF ~head_frame THEN Raise("ValueError", "pos_frame")
    ELSE IF pos.kind = "list" THEN Raise("TypeError", "pos_type")
    ELSE IF pos.kind = "badshape" THEN Raise("ValueError", "pos_shape")
    ELSE IF ~UniqueAscending(PosT(pos))
         THEN Raise("ValueError", "pos_order")
    ELSE NoErr

CheckPosErr(pos, head_frame) ==
    IF pos.kind = "none" THEN NoErr
    ELSE IF ~head_frame THEN Raise("ValueError", "pos_frame")
    ELSE IF pos.kind = "list" THEN Raise("TypeError", "pos_type")
    ELSE IF pos.kind = "badshape" THEN Raise("ValueError", "pos_shape")
    ELSE IF ~UniqueAscending(PosT(pos))
         THEN Raise("ValueError", "pos_order")
    ELSE IF \E i \in 1..Len(pos.rows) :
                ~TimeMask(pos.rows[i].t, TOff - TolTicks)
         THEN Raise("ValueError", "pos_early")
    ELSE NoErr

CheckPosResult(pos) ==
    IF pos.kind = "none" THEN CheckedNone
    ELSE [given |-> TRUE,
          t |-> [i \in 1..Len(pos.rows) |-> pos.rows[i].t - TOff],
          q |-> PosQ(pos)]

\* ------------------------------------------- buffer limits (376-395)
\* np.arange(0, n + 1, d) for d >= 1
Arange(n, d) == [i \in 1..((n \div d) + 1) |-> (i - 1) * d]

ReadLimsNoFold(n, d) ==
    LET r0 == Arange(n, d)
    IN  IF r0[Len(r0)] # n THEN Append(r0, n) ELSE r0

ReadLimsNoFix(n, d) ==
    LET r0 == Arange(n, d)
    IN  IF Len(r0) = 1 THEN Append(r0, n) ELSE r0

ReadLims(n, d) ==
    LET r0 == Arange(n, d)
        r1 == IF Len(r0) = 1 THEN Append(r0, n) ELSE r0
    IN  IF r1[Len(r1)] # n THEN [r1 EXCEPT ![Len(r1)] = n] ELSE r1

\* np.arange with a step of 0 raises; the exception class depends on the
\* numpy release and on the step being an int or a float
ArangeZeroStep == {"ZeroDivisionError", "ValueError"}

\* max(int(round(10. * sfreq)), 1): the chunk length without tSSS
ChunkSamples == {Max(c, 1) : c \in PyRound(ChunkTicks, TicksPerSample)}

\* ------------------------------- _trans_starts_stops_quats (631-679)
\* np.searchsorted(idx, v): the number of entries of the sorted idx below v
SearchSorted(idx, v) == Cardinality({i \in 1..Len(idx) : idx[i] < v})

\* the (trans, rel_start, rel_stop, quat) tuples in the order the loop
\* over ti = -1 .. len(pos_idx) - 1 appends them
Segments(pos, start, stop, this_pos_data) ==
    LET lo == SearchSorted(pos.idx, start)
        hi == SearchSorted(pos.idx, stop)
        lead_stop == (IF hi > lo THEN pos.idx[lo + 1] ELSE stop) - start
        lead == IF lead_stop = 0 THEN << >>
                ELSE << [trans |-> NoneQ, rel_start |-> 0,
                         rel_stop |-> lead_stop, quat |-> this_pos_data] >>
        own == [j \in 1..(hi - lo) |->
                  [trans |-> pos.q[lo + j],
                   rel_start |-> pos.idx[lo + j] - start,
                   rel_stop |-> (IF j = hi - lo THEN stop
                                 ELSE pos.idx[lo + j + 1]) - start,
                   quat |-> pos.q[lo + j]]]
    IN  lead \o own

\* the assertions of the loop body, in order, and the final used.all()
RECURSIVE AssertsHold(_, _, _, _)
AssertsHold(segs, i, used, len) ==
    IF i > Len(segs) THEN used = 0..(len - 1)
    ELSE LET s == segs[i]
             span == s.rel_start..(s.rel_stop - 1)
         IN  /\ 0 <= s.rel_start
             /\ s.rel_start < s.rel_stop
             /\ s.rel_stop <= len
             /\ span \cap used = {}
             /\ AssertsHold(segs, i + 1, used \cup span, len)

TransStartsStopsQuats(pos, start, stop, this_pos_data) ==
    LET segs == Segments(pos, start, stop, this_pos_data)
    IN  [ok |-> AssertsHold(segs, 1, {}, stop - start),
         segs |-> segs,
         avg |-> IF this_pos_data = NoneQ THEN << >>
                 ELSE [i \in 1..Len(segs) |->
                         << segs[i].quat,
                            segs[i].rel_stop - segs[i].rel_start >>]]


\* ------------------------------------------------------------------ state
VARIABLES
    heap,      \* the Raw objects: object id -> content
    raw,       \* the object the caller passes as `raw`
    ret,       \* what the call returned: an object id, 0 while none
    pc,        \* position of the call
    err,       \* the exception that ended the call (NoErr while none)
    a,         \* the arguments as triaged so far
    loc,       \* local variables of maxwell_filter
    gh,        \* observations: counters and the last decomposition
    inputAtCall, \* content of the caller's object when the call started
    la         \* the arrays of the numerical routines checked on their own

vars == << heap, raw, ret, pc, err, a, loc, gh, inputAtCall, la >>

ObjIds == {1, 2}

\* one time sample of a recording.  meg: w counts the writes of
\* raw_sss._data[meg_picks, s], by is the buffer (1-based) that wrote it,
\* sss the pose of the decomposition whose moments were reconstructed into it
\* (NoneQ: none), st whether a temporal projection was applied, ctc whether
\* cross-talk correction went into it.  pos: content of the cHPI rows.
\* bads of a recording: info['bads'] lists MEG channels.
OrigMeg == [w |-> 0, by |-> 0, sss |-> NoneQ, st |-> FALSE, ctc |-> FALSE]

OrigSample == [meg |-> OrigMeg, pos |-> NoneQ]

\* a processing-history entry: which blocks of max_info are non-empty
\* and, of a non-empty sss_info, its orders, components mask and nfree
HistEntry(sss, tsss, cal, ctc) ==
    [sss_info |-> sss, max_st |-> tsss, sss_cal |-> cal, sss_ctc |-> ctc,
     in_order |-> 0, out_order |-> 0, components |-> << >>, nfree |-> 0]

FreeObj ==
    [data |-> << >>, nchan_pos |-> 0, dev_head_t |-> NoneQ, proj |-> FALSE,
     comp |-> 0, hist |-> << >>, bads |-> FALSE]

NewRaw(n, dht, proj, comp) ==
    [data |-> [s \in 1..n |-> OrigSample], nchan_pos |-> 0,
     dev_head_t |-> dht, proj |-> proj, comp |-> comp, hist |-> << >>,
     bads |-> FALSE]

NSamples(o) == Len(heap[o].data)

\* the pose a destination argument stands for
DestPose == NPoses + 1

Args0 ==
    [head_frame |-> FALSE, recon_trans |-> NoneQ, st |-> NoneQ,
     tsss |-> FALSE, st_only |-> FALSE, st_fixed |-> TRUE,
     bad_condition |-> "", head_pos |-> NoPos, regularize |-> "None",
     pos |-> [given |-> FALSE, t |-> << >>, q |-> << >>, idx |-> << >>],
     cal |-> "none", ctc |-> "none"]

\* the expansion: the orders and the numbers of internal and external
\* moments _get_n_moments gives for them
NoExp == [int_order |-> 0, ext_order |-> 0, n_in |-> 0, n_out |-> 0]

NoTssq == [ok |-> TRUE, segs |-> << >>, avg |-> << >>]

Loc0 ==
    [raw_sss |-> 0, pos_picks |-> 0, st_duration |-> 0,
     exp |-> NoExp, n_good |-> 0, mag_or_fine |-> FALSE,
     reg_moments |-> {}, reg_moments_0 |-> {}, out_removes |-> {},
     read_lims |-> << >>, ii |-> 0, k |-> 0,
     st_when |-> "", this_pos_quat |-> NoneQ, S_decomp |-> NoneQ,
     tssq |-> NoTssq, out_meg |-> << >>, out_pos |-> << >>,
     orig |-> OrigMeg]

Gh0 ==
    [fatal |-> {}, copied |-> FALSE, requested |-> 0, nbuf |-> 0,
     reg0 |-> {}, n_tsss |-> 0, tsss_at |-> NoneQ,
     n_loop |-> 0, n_st |-> 0,
     cond |-> 0, warned |-> FALSE, st_warn |-> FALSE,
     app |-> [trans |-> NoneQ, used |-> NoneQ, cached |-> NoneQ]]

\* no array: the numerical routines are not under check
NoLa == [stage |-> "none"]

InitN(maxn) ==
    /\ \E n \in 1..maxn, dht \in {NoneQ, DevPose},
          proj \in BOOLEAN, comp \in {0, 1}, bads \in BOOLEAN :
          heap = [o \in ObjIds |->
                    IF o = 1
                    THEN [NewRaw(n, dht, proj, comp) EXCEPT !.bads = bads]
                    ELSE FreeObj]
    /\ raw = 1
    /\ ret = 0
    /\ pc = "idle"
    /\ err = NoErr
    /\ a = Args0
    /\ loc = Loc0
    /\ gh = Gh0
    /\ inputAtCall = heap[1]
    /\ la = NoLa

Init == InitN(MaxSamples)

\* an exception leaves maxwell_filter: nothing is returned
Fail(e, args) ==
    /\ pc' = "error"
    /\ err' = e
    /\ a' = args
    /\ ret' = 0

\* ------------------------------------------------------- input domains
\* The arguments a call is given are drawn from bounded sets.  Four
\* families of calls are explored: "pose" varies the head-position
\* array over every array of up to MaxPos rows and keeps the file arguments
\* and the destination at None; "runs" varies the other arguments and offers
\* a few head-position arrays only; "lims" varies the recording and buffer
\* lengths and offers no well-formed head-position array; "reg" varies the
\* regularization, the expansion orders and the sensor types over a few
\* head-position arrays.
Destinations(mode) ==
    IF mode = "runs"
    THEN {"None", "trans", "vec3", "badshape", "wrongframe"}
    ELSE {"None", "badshape"}

BadConditions(mode) ==
    IF mode = "runs" THEN {"error", "warning", "ignore", "bad"}
    ELSE {"ignore", "bad"}

Files(mode) ==
    IF mode = "runs" THEN {"none", "ok", "missing"} ELSE {"none"}

CalFiles(mode) == IF mode = "reg" THEN {"none", "ok"} ELSE Files(mode)

Regularizes(mode) ==
    IF mode = "reg" THEN {"None", "in", "bad"} ELSE {"None", "bad"}

\* int_order and ext_order with their numbers of moments
ExpansionOrders(mode) ==
    {[int_order |-> 1, ext_order |-> 0, n_in |-> 3, n_out |-> 0]}
    \cup (IF mode = "reg"
          THEN {[int_order |-> 1, ext_order |-> 1, n_in |-> 3, n_out |-> 3]}
          ELSE {})

\* the number of good MEG sensors less the number of requested moments
Slacks(mode) == IF mode = "reg" THEN -1..1 ELSE {-1, 0}

\* whether a sensor is a magnetometer other than a KIT gradiometer
MagSensors(mode) == IF mode = "reg" THEN BOOLEAN ELSE {TRUE}

\* ------------------------------------------ maxwell_filter, lines 249-262
\* _check_usable (907-915)
CheckUsableErr(o) ==
    IF heap[o].proj THEN Raise("RuntimeError", "proj")
    ELSE IF heap[o].comp # 0 THEN Raise("RuntimeError", "comp")
    ELSE NoErr

\* _check_destination (572-595): the error, and the transform returned
CheckDestinationErr(destination, head_frame) ==
    IF destination = "None" THEN NoErr
    ELSE IF ~head_frame THEN Raise("RuntimeError", "dest_frame")
    ELSE IF destination = "badshape" THEN Raise("ValueError", "dest_shape")
    ELSE IF destination = "wrongframe"
         THEN Raise("RuntimeError", "dest_trans")
    ELSE NoErr

CheckDestination(destination, o) ==
    IF destination = "None" THEN heap[o].dev_head_t ELSE DestPose

TriageErr(isRaw, regularize, st_correlation, coord_frame, destination) ==
    IF ~isRaw THEN Raise("TypeError", "raw")
    ELSE IF CheckUsableErr(raw) # NoErr THEN CheckUsableErr(raw)
    ELSE IF regularize \notin {"None", "in"}
         THEN Raise("ValueError", "regularize")
    ELSE IF st_correlation <= 0 \/ st_correlation > 100
         THEN Raise("ValueError", "st_correlation")
    ELSE IF coord_frame \notin {"head", "meg"}
         THEN Raise("ValueError", "coord_frame")
    ELSE CheckDestinationErr(destination, coord_frame = "head")

\* the fatal conditions present in the arguments of lines 249-262, whichever
\* of them the code meets first.  st_correlation is given in percent.
TriageFatal(isRaw, regularize, st_correlation, coord_frame, destination) ==
    (IF isRaw THEN {} ELSE {"raw"})
    \cup (IF heap[raw].proj THEN {"proj"} ELSE {})
    \cup (IF heap[raw].comp # 0 THEN {"comp"} ELSE {})
    \cup (IF regularize \in {"None", "in"} THEN {} ELSE {"regularize"})
    \cup (IF 0 < st_correlation /\ st_correlation <= 100
          THEN {} ELSE {"st_correlation"})
    \cup (IF coord_frame \in {"head", "meg"} THEN {} ELSE {"coord_frame"})
    \cup (IF destination # "None" /\ coord_frame # "head"
          THEN {"dest_frame"} ELSE {})
    \cup (IF destination \in {"badshape", "wrongframe"}
          THEN {"destination"} ELSE {})

Triage(mode) ==
    /\ pc = "idle"
    /\ \E isRaw \in BOOLEAN, regularize \in Regularizes(mode),
          st_correlation \in {0, 98, 100, 101},
          coord_frame \in {"head", "meg", "bad"},
          destination \in Destinations(mode) :
          LET e == TriageErr(isRaw, regularize, st_correlation, coord_frame,
                             destination)
              args == [Args0 EXCEPT
                         !.head_frame = (coord_frame = "head"),
                         !.regularize = regularize,
                         !.recon_trans = CheckDestination(destination, raw)]
          IN  /\ IF e # NoErr
                 THEN Fail(e, Args0)
                 ELSE /\ pc' = "check_st"
                      /\ a' = args
                      /\ UNCHANGED << err, ret >>
              /\ gh' = [gh EXCEPT !.fatal =
                          TriageFatal(isRaw, regularize, st_correlation,
                                      coord_frame, destination)]
    /\ inputAtCall' = heap[raw]
    /\ UNCHANGED << heap, raw, loc >>
    /\ UNCHANGED la

\* ------------------------------------------ maxwell_filter, lines 263-283
\* st_duration in ticks (NoneQ: None); the data last n / sfreq seconds
StDurationOk(st_duration, n) ==
    0 < st_duration /\ st_duration <= n * TicksPerSample

CheckStErr(st_duration, bad_condition, st_only) ==
    IF st_duration # NoneQ /\ ~StDurationOk(st_duration, NSamples(raw))
    THEN Raise("ValueError", "st_duration")
    ELSE IF bad_condition \notin {"error", "warning", "ignore"}
         THEN Raise("ValueError", "bad_condition")
    ELSE IF heap[raw].dev_head_t = NoneQ /\ a.head_frame
         THEN Raise("RuntimeError", "dev_head_t")
    ELSE IF st_only /\ st_duration = NoneQ
         THEN Raise("ValueError", "st_only")
    ELSE NoErr

StDurations(n) == {NoneQ} \cup 0..(n * TicksPerSample + 1)

\* the fatal conditions present in the arguments of lines 263-283
CheckStFatal(st_duration, bad_condition, st_only) ==
    (IF st_duration # NoneQ /\ ~StDurationOk(st_duration, NSamples(raw))
     THEN {"st_duration"} ELSE {})
    \cup (IF bad_condition \in {"error", "warning", "ignore"}
          THEN {} ELSE {"bad_condition"})
    \cup (IF heap[raw].dev_head_t = NoneQ /\ a.head_frame
          THEN {"dev_head_t"} ELSE {})
    \cup (IF st_only /\ st_duration = NoneQ THEN {"st_only"} ELSE {})

CheckSt(mode) ==
    /\ pc = "check_st"
    /\ \E st_duration \in StDurations(NSamples(raw)),
          bad_condition \in BadConditions(mode),
          st_only \in BOOLEAN :
          LET e == CheckStErr(st_duration, bad_condition, st_only)
          IN  /\ IF e # NoErr
                 THEN Fail(e, a)
                 ELSE /\ \E st \in (IF st_duration = NoneQ THEN {NoneQ}
                                    ELSE PyRound(st_duration,
                                                 TicksPerSample)) :
                           a' = [a EXCEPT !.st = st,
                                          !.tsss = (st_duration # NoneQ),
                                          !.bad_condition = bad_condition,
                                          !.st_only = st_only]
                      /\ pc' = "check_pos"
                      /\ UNCHANGED << err, ret >>
              /\ gh' = [gh EXCEPT !.fatal =
                          CheckStFatal(st_duration, bad_condition, st_only)]
    /\ UNCHANGED << heap, raw, loc, inputAtCall >>
    /\ UNCHANGED la


\* ------------------------------------------ maxwell_filter, lines 284-285
\* the times offered in a head-position array: from more than the slack of
\* _check_pos and a sample before the first sample to past the last sample
TimeDomain(n) ==
    (TOff - TolTicks - TicksPerSample - 1)..(TOff + n * TicksPerSample)

PosRows(n) == [t : TimeDomain(n), q : Poses]

\* a few rows: one too early, one on the first sample, one on the second
FewRows == {[t |-> TOff - SecondTicks, q |-> 1], [t |-> TOff, q |-> 1],
            [t |-> TOff + TicksPerSample, q |-> NPoses]}

HeadPosInputs(mode, n) ==
    {NoPos, [kind |-> "list", rows |-> << >>],
     [kind |-> "badshape", rows |-> << >>]}
    \cup {[kind |-> "array", rows |-> r] :
            r \in UNION {[1..m -> CASE mode = "pose" -> PosRows(n)
                                    [] mode \in {"runs", "reg"} -> FewRows
                                    [] OTHER -> {}] : m \in 1..MaxPos}}

\* a head-position argument that is malformed (lines 743-760)
CheckPosFatal(pos, head_frame) ==
    IF pos.kind # "none"
       /\ (\/ ~head_frame
           \/ pos.kind # "array"
           \/ ~UniqueAscending(PosT(pos))
           \/ \E i \in 1..Len(pos.rows) :
                 ~TimeMask(pos.rows[i].t, TOff - TolTicks))
    THEN {"head_pos"} ELSE {}

CheckPos(mode) ==
    /\ pc = "check_pos"
    /\ \E head_pos \in HeadPosInputs(mode, NSamples(raw)),
          st_fixed \in BOOLEAN :
          LET e == CheckPosErr(head_pos, a.head_frame)
              args == [a EXCEPT !.head_pos = head_pos, !.st_fixed = st_fixed]
              res == CheckPosResult(head_pos)
          IN  /\ gh' = [gh EXCEPT
                          !.st_warn = head_pos.kind # "none"
                                      /\ a.head_frame /\ ~st_fixed,
                          !.fatal = CheckPosFatal(head_pos, a.head_frame)]
              /\ IF e # NoErr
                 THEN Fail(e, args)
                 ELSE /\ a' = [args EXCEPT !.pos = [given |-> res.given,
                                                    t |-> res.t, q |-> res.q,
                                                    idx |-> res.t]]
                      /\ pc' = "check_info"
                      /\ UNCHANGED << err, ret >>
    /\ UNCHANGED << heap, raw, loc, inputAtCall >>
    /\ UNCHANGED la

\* ------------------------------------------ maxwell_filter, lines 286-288
\* _check_info (1352-1363): the first block found applied already
EntryErrAnyStage(ent, sss, tsss, calibration, ctc) ==
    IF (sss \/ tsss \/ calibration \/ ctc)
       /\ (ent.sss_info \/ ent.max_st \/ ent.sss_cal \/ ent.sss_ctc)
    THEN Raise("RuntimeError", "reapply_sss")
    ELSE NoErr

EntryErr(ent, sss, tsss, calibration, ctc) ==
    IF sss /\ ent.sss_info THEN Raise("RuntimeError", "reapply_sss")
    ELSE IF tsss /\ ent.max_st THEN Raise("RuntimeError", "reapply_tsss")
    ELSE IF calibration /\ ent.sss_cal
         THEN Raise("RuntimeError", "reapply_cal")
    ELSE IF ctc /\ ent.sss_ctc THEN Raise("RuntimeError", "reapply_ctc")
    ELSE NoErr

CheckInfoErrNoTsss(hist, sss, tsss, calibration, ctc) ==
    LET bad == {i \in 1..Len(hist) :
                  EntryErr(hist[i], sss, FALSE, calibration, ctc) # NoErr}
    IN  IF bad = {} THEN NoErr
        ELSE EntryErr(hist[CHOOSE i \in bad : \A j \in bad : i <= j],
                      sss, FALSE, calibration, ctc)

CheckInfoErr(hist, sss, tsss, calibration, ctc) ==
    LET bad == {i \in 1..Len(hist) :
                  EntryErr(hist[i], sss, tsss, calibration, ctc) # NoErr}
    IN  IF bad = {} THEN NoErr
        ELSE EntryErr(hist[CHOOSE i \in bad : \A j \in bad : i <= j],
                      sss, tsss, calibration, ctc)

\* a requested stage is recorded in the processing history already
CheckInfoFatal(hist, sss, tsss, calibration, ctc) ==
    IF \E i \in 1..Len(hist) :
          \/ sss /\ hist[i].sss_info
          \/ tsss /\ hist[i].max_st
          \/ calibration /\ hist[i].sss_cal
          \/ ctc /\ hist[i].sss_ctc
    THEN {"filtered"} ELSE {}

CheckInfo(mode) ==
    /\ pc = "check_info"
    /\ \E calibration \in CalFiles(mode), cross_talk \in Files(mode) :
          LET e == CheckInfoErr(heap[raw].hist, ~a.st_only, a.tsss,
                                ~a.st_only /\ calibration # "none",
                                ~a.st_only /\ cross_talk # "none")
              args == [a EXCEPT !.cal = calibration, !.ctc = cross_talk]
          IN  /\ IF e # NoErr
                 THEN Fail(e, args)
                 ELSE /\ a' = args
                      /\ pc' = "prepare"
                      /\ UNCHANGED << err, ret >>
              /\ gh' = [gh EXCEPT !.fatal =
                          CheckInfoFatal(heap[raw].hist, ~a.st_only, a.tsss,
                              ~a.st_only /\ calibration # "none",
                              ~a.st_only /\ cross_talk # "none")]
    /\ UNCHANGED << heap, raw, loc, inputAtCall >>
    /\ UNCHANGED la


\* ------------------------------------------ maxwell_filter, lines 293-346
\* raw.copy() of _copy_preload_add_channels (698): the object that holds
\* the copy
CopyTargetAlias(o) == o

CopyTarget(o) == CHOOSE c \in ObjIds : c # o

\* the copy with the cHPI channels appended whatever add_channels says
CopyPreloadAddChannelsAlways(o, add_channels) ==
    [heap[o] EXCEPT
       !.data = [s \in 1..Len(heap[o].data) |->
                   [heap[o].data[s] EXCEPT !.pos = PosZero]],
       !.nchan_pos = @ + NKinds]

\* _copy_preload_add_channels (696-736): the content of the copy
CopyPreloadAddChannels(o, add_channels) ==
    IF add_channels
    THEN [heap[o] EXCEPT
            !.data = [s \in 1..Len(heap[o].data) |->
                        [heap[o].data[s] EXCEPT !.pos = PosZero]],
            !.nchan_pos = @ + NKinds]
    ELSE heap[o]

\* the check of n_bases that also refuses as many moments as good sensors
GetMfPicksErrAtLeast(n_bases, n_good) ==
    IF n_bases >= n_good THEN Raise("ValueError", "n_bases") ELSE NoErr

\* _get_mf_picks (864-872): n_bases requested, n_good good sensors
GetMfPicksErr(n_bases, n_good) ==
    IF n_bases > n_good THEN Raise("ValueError", "n_bases") ELSE NoErr

\* lines 300-346: picks, fine calibration file, cross-talk file
PrepareErr(n_bases, n_good) ==
    IF GetMfPicksErr(n_bases, n_good) # NoErr
    THEN GetMfPicksErr(n_bases, n_good)
    ELSE IF a.cal = "missing" THEN Raise("RuntimeError", "cal_missing")
    ELSE IF a.ctc = "missing" THEN Raise("RuntimeError", "ctc_missing")
    ELSE NoErr

\* the fatal conditions met in lines 300-346
PrepareFatal(n_bases, n_good) ==
    (IF n_bases > n_good THEN {"n_bases"} ELSE {})
    \cup (IF a.cal = "missing" THEN {"calibration"} ELSE {})
    \cup (IF a.ctc = "missing" THEN {"cross_talk"} ELSE {})

Prepare(mode) ==
    /\ pc = "prepare"
    /\ \E exp \in ExpansionOrders(mode), slack \in Slacks(mode),
          any_mag \in MagSensors(mode) :
          LET add_channels == a.pos.given /\ ~a.st_only
              c == CopyTarget(raw)
              n_bases == exp.n_in + exp.n_out
              n_good == n_bases + slack
              e == PrepareErr(n_bases, n_good)
          IN  /\ heap' = [heap EXCEPT
                            ![c] = CopyPreloadAddChannels(raw, add_channels)]
              /\ loc' = [loc EXCEPT !.raw_sss = c,
                           !.pos_picks = IF add_channels THEN NKinds ELSE 0,
                           !.exp = exp, !.n_good = n_good,
                           !.mag_or_fine = any_mag \/ a.cal # "none"]
              /\ gh' = [gh EXCEPT !.copied = TRUE,
                          !.fatal = PrepareFatal(n_bases, n_good)]
              /\ IF e # NoErr
                 THEN Fail(e, a)
                 ELSE /\ pc' = "setup"
                      /\ UNCHANGED << err, ret, a >>
    /\ UNCHANGED << raw, inputAtCall >>
    /\ UNCHANGED la

\* ------------------------------------------------- _get_decomp (774-804)
Conds(mode) ==
    IF mode = "runs" THEN {CondLimit - 1, CondLimit} ELSE {CondLimit - 1}

\* what the condition-number policy does: "raise", "warn" or "pass"
BadConditionActsAbove(cond, bad_condition) ==
    IF bad_condition # "ignore" /\ cond > CondLimit
    THEN (IF bad_condition = "error" THEN "raise" ELSE "warn")
    ELSE "pass"

BadConditionActs(cond, bad_condition) ==
    IF bad_condition # "ignore" /\ cond >= CondLimit
    THEN (IF bad_condition = "error" THEN "raise" ELSE "warn")
    ELSE "pass"

CondErr == Raise("RuntimeError", "bad_condition")

\* _regularize_out (1642-1646): the column indices (from 0) to remove
RegularizeOutNone(n_in, mag_or_fine) == {}

RegularizeOut(n_in, mag_or_fine) ==
    IF mag_or_fine THEN {} ELSE {n_in + i : i \in 0..2}

\* _regularize_in (1649-1741): the internal moments it may remove.  It
\* removes the lim_idx first of the removal sweep, lim_idx the first index
\* of I_tots at 98% of its maximum, hence fewer than n_in; which ones
\* depends on the basis.
InRemoves(regularize, n_in) ==
    IF regularize = "in"
    THEN {R \in SUBSET (0..(n_in - 1)) : Cardinality(R) < n_in}
    ELSE {{}}

\* _regularize (823-852): the retained moments
Regularize(regularize, exp, mag_or_fine, in_removes) ==
    LET out_removes == RegularizeOut(exp.n_in, mag_or_fine)
        reg_in_moments == (0..(exp.n_in - 1)) \ in_removes
        reg_out_moments ==
            (exp.n_in..(exp.n_in + exp.n_out - 1)) \ out_removes
    IN  [reg_moments |-> reg_in_moments \cup reg_out_moments,
         n_use_in |-> Cardinality(reg_in_moments),
         out_removes |-> out_removes]

\* the observation of one _get_decomp call
SawDecomp(g, cond) ==
    [g EXCEPT !.cond = cond,
              !.warned = (BadConditionActs(cond, a.bad_condition) = "warn")]

\* st_when with tSSS after movement compensation for st_fixed
StWhenSwapped(tsss, st_fixed) ==
    IF tsss THEN (IF st_fixed THEN "after" ELSE "before") ELSE "never"

\* st_when (368-378): tSSS relative to movement compensation
StWhen(tsss, st_fixed) ==
    IF tsss THEN (IF st_fixed THEN "before" ELSE "after") ELSE "never"

\* no decomposition before the buffer loop
FirstDecompTransNone(dev_head_t) == NoneQ

\* the transform of the decomposition computed before the buffer loop
\* (419-420)
FirstDecompTrans(dev_head_t) == dev_head_t

\* ------------------------------------------ maxwell_filter, lines 366-426
Setup(mode) ==
    /\ pc = "setup"
    /\ \E chunk \in ChunkSamples, cond \in Conds(mode),
          in_removes \in InRemoves(a.regularize, loc.exp.n_in) :
          LET o == loc.raw_sss
              reg == Regularize(a.regularize, loc.exp, loc.mag_or_fine,
                                in_removes)
              n == NSamples(o)
              st_when == StWhen(a.tsss, a.st_fixed)
              requested == IF a.tsss THEN a.st ELSE chunk
              st_duration == Min(n, requested)
              idx == [i \in 1..Len(a.pos.t) |-> TimeAsIndex(a.pos.t[i])]
              args == [a EXCEPT !.pos.idx = idx]
              dht == heap[o].dev_head_t
          IN  IF st_duration = 0
              THEN /\ \E cls \in ArangeZeroStep :
                        Fail(Raise(cls, "arange"), a)
                   /\ UNCHANGED << loc, gh >>
              ELSE /\ loc' = [loc EXCEPT
                                !.st_when = st_when,
                                !.st_duration = st_duration,
                                !.read_lims = ReadLims(n, st_duration),
                                !.this_pos_quat =
                                    IF dht # NoneQ /\ a.pos.given
                                    THEN dht ELSE NoneQ,
                                !.S_decomp = FirstDecompTrans(dht),
                                !.reg_moments = reg.reg_moments,
                                !.reg_moments_0 = reg.reg_moments,
                                !.out_removes = reg.out_removes,
                                !.ii = 1]
                   /\ gh' = [SawDecomp(gh, cond) EXCEPT
                               !.requested = requested,
                               !.reg0 = reg.reg_moments]
                   /\ IF BadConditionActs(cond, a.bad_condition) = "raise"
                      THEN Fail(CondErr, args)
                      ELSE /\ a' = args
                           /\ pc' = "buffer"
                           /\ UNCHANGED << err, ret >>
    /\ UNCHANGED << heap, raw, inputAtCall >>
    /\ UNCHANGED la


\* ------------------------------------------ maxwell_filter, lines 427-472
Start == loc.read_lims[loc.ii]

Stop == loc.read_lims[loc.ii + 1]

\* _do_tSSS (682-693) on a buffer of samples: the projection is applied
DoTSSS(buf) == [s \in 1..Len(buf) |-> [buf[s] EXCEPT !.st = TRUE]]

BeginBuffer(mode) ==
    /\ pc = "buffer"
    /\ \E cond \in Conds(mode) :
          LET o == loc.raw_sss
              len == Stop - Start
              out0 == [s \in 1..len |-> heap[o].data[Start + s].meg]
              orig0 == [OrigMeg EXCEPT !.ctc = (a.ctc # "none")]
              tssq == TransStartsStopsQuats(a.pos, Start, Stop,
                                            loc.this_pos_quat)
              pre == a.tsss /\ loc.st_when = "before"
              \* a decomposition at the window's average pose (456-459)
              st_decomp == pre /\ tssq.avg # << >>
              act == IF st_decomp
                     THEN BadConditionActs(cond, a.bad_condition)
                     ELSE "pass"
              l1 == [loc EXCEPT
                       !.tssq = tssq,
                       !.k = 1,
                       !.out_pos = [s \in 1..len |-> PosEmpty],
                       !.out_meg = IF pre /\ a.st_only /\ act # "raise"
                                   THEN DoTSSS(out0) ELSE out0,
                       !.orig = IF pre /\ ~a.st_only /\ act # "raise"
                                THEN [orig0 EXCEPT !.st = TRUE] ELSE orig0]
          IN  IF ~tssq.ok
              THEN /\ Fail(Raise("AssertionError", "tssq"), a)
                   /\ loc' = [loc EXCEPT !.tssq = tssq]
                   /\ UNCHANGED gh
              ELSE /\ loc' = l1
                   /\ gh' = [(IF st_decomp
                              THEN [SawDecomp(gh, cond) EXCEPT !.n_st = @ + 1]
                              ELSE gh)
                             EXCEPT !.n_tsss = IF pre /\ act # "raise"
                                               THEN @ + 1 ELSE @,
                                    !.tsss_at = IF pre /\ act # "raise"
                                                THEN 0 ELSE NoneQ]
                   /\ IF act = "raise"
                      THEN Fail(CondErr, a)
                      ELSE /\ pc' = IF ~a.st_only \/ loc.st_when = "after"
                                    THEN "sub" ELSE "endbuf"
                           /\ UNCHANGED << err, ret, a >>
    /\ UNCHANGED << heap, raw, inputAtCall >>
    /\ UNCHANGED la

\* ------------------------------------------ maxwell_filter, lines 476-508
\* the pose of the decomposition whose pS_decomp gives mm_in (481-487)
DecompPoseStale(trans, cached) == cached

DecompPose(trans, cached) == IF trans # NoneQ THEN trans ELSE cached

\* the reconstruction is written to out_meg_data whatever st_only says
WritesOutMegAlways(st_only) == TRUE

\* whether the reconstruction is written to out_meg_data (490-493)
WritesOutMeg(st_only) == ~st_only

\* the head-position rows of a sub-interval are never written
WritesOutPosNever(n_pos_picks) == FALSE

\* whether the pose record is written to out_pos_data (494-496)
WritesOutPos(n_pos_picks) == n_pos_picks > 0

\* whether _get_this_decomp_trans is called for the sub-interval (481-483)
RecomputeOnChange(trans, cached) == trans # NoneQ /\ trans # cached

Recompute(trans, cached) == trans # NoneQ

SubInterval(mode) ==
    /\ pc = "sub"
    /\ \E cond \in Conds(mode),
          in_removes \in InRemoves(a.regularize, loc.exp.n_in) :
          LET seg == loc.tssq.segs[loc.k]
              rec == Recompute(seg.trans, loc.S_decomp)
              reg == Regularize(a.regularize, loc.exp, loc.mag_or_fine,
                                in_removes)
              act == IF rec THEN BadConditionActs(cond, a.bad_condition)
                     ELSE "pass"
              pose == DecompPose(seg.trans, loc.S_decomp)
              span == (seg.rel_start + 1)..seg.rel_stop
              g1 == [(IF rec THEN [SawDecomp(gh, cond) EXCEPT !.n_loop = @ + 1]
                      ELSE gh)
                     EXCEPT !.app = [trans |-> seg.trans, used |-> pose,
                                     cached |-> loc.S_decomp]]
              l1 == [loc EXCEPT
                       !.S_decomp = pose,
                       !.reg_moments = IF rec THEN reg.reg_moments ELSE @,
                       !.out_removes = IF rec THEN reg.out_removes ELSE @,
                       !.this_pos_quat = seg.quat,
                       !.out_meg = [s \in 1..Len(loc.out_meg) |->
                                      IF s \in span /\ WritesOutMeg(a.st_only)
                                      THEN [loc.out_meg[s] EXCEPT
                                              !.sss = pose,
                                              !.st = loc.orig.st,
                                              !.ctc = loc.orig.ctc]
                                      ELSE loc.out_meg[s]],
                       !.out_pos = [s \in 1..Len(loc.out_pos) |->
                                      IF s \in span
                                         /\ WritesOutPos(loc.pos_picks)
                                      THEN seg.quat ELSE loc.out_pos[s]],
                       !.k = @ + 1]
          IN  IF act = "raise"
              THEN /\ Fail(CondErr, a)
                   /\ gh' = SawDecomp(gh, cond)
                   /\ UNCHANGED loc
              ELSE /\ loc' = l1
                   /\ gh' = g1
                   /\ pc' = IF loc.k = Len(loc.tssq.segs)
                            THEN "endbuf" ELSE "sub"
                   /\ UNCHANGED << err, ret, a >>
    /\ UNCHANGED << heap, raw, inputAtCall >>
    /\ UNCHANGED la

\* ------------------------------------------ maxwell_filter, lines 510-519
EndBuffer ==
    /\ pc = "endbuf"
    /\ LET o == loc.raw_sss
           out == IF loc.st_when = "after" THEN DoTSSS(loc.out_meg)
                  ELSE loc.out_meg
           last == loc.ii = Len(loc.read_lims) - 1
       IN  /\ heap' = [heap EXCEPT ![o].data =
                 [s \in 1..Len(@) |->
                    IF Start < s /\ s <= Stop
                    THEN [meg |-> [out[s - Start] EXCEPT
                                     !.w = @ + 1, !.by = loc.ii],
                          pos |-> IF loc.pos_picks > 0
                                  THEN loc.out_pos[s - Start]
                                  ELSE @[s].pos]
                    ELSE @[s]]]
           /\ loc' = [loc EXCEPT !.ii = IF last THEN @ ELSE @ + 1]
           /\ gh' = [gh EXCEPT
                       !.nbuf = @ + 1,
                       !.n_tsss = IF loc.st_when = "after" THEN @ + 1 ELSE @,
                       !.tsss_at = IF loc.st_when = "after"
                                   THEN loc.k - 1 ELSE @]
           /\ pc' = IF last THEN "finish" ELSE "buffer"
    /\ UNCHANGED << raw, ret, err, a, inputAtCall >>
    /\ UNCHANGED la

\* ------------------------------------------ maxwell_filter, lines 521-527
\* _update_sss_info (1394-1415): the entry put in front of proc_history
\* components = zeros(n); components[reg_moments] = 1 (1396-1397), as a
\* sequence: entry i + 1 is that of index i
Components(n, reg_moments) ==
    [i \in 1..n |-> IF (i - 1) \in reg_moments THEN 1 ELSE 0]

\* the moments of the decomposition computed last
RegMomentsLast == loc.reg_moments

\* the reg_moments argument of _update_sss_info (524): reg_moments_0
RegMomentsRecorded == loc.reg_moments_0

NewEntry ==
    IF a.st_only THEN HistEntry(FALSE, a.tsss, FALSE, FALSE)
    ELSE LET n_in == loc.exp.n_in
             components == Components(n_in + loc.exp.n_out,
                                      RegMomentsRecorded)
         IN  [HistEntry(TRUE, a.tsss, a.cal # "none", a.ctc # "none")
                EXCEPT !.in_order = loc.exp.int_order,
                       !.out_order = loc.exp.ext_order,
                       !.components = components,
                       !.nfree = Cardinality({i \in 1..n_in :
                                                components[i] = 1})]

\* _reset_meg_bads, called when not st_only (1407-1410): whether MEG
\* channels remain in info['bads']
ResetMegBads(st_only, bads) == st_only /\ bads

Finish ==
    /\ pc = "finish"
    /\ heap' = [heap EXCEPT ![loc.raw_sss].dev_head_t = a.recon_trans,
                            ![loc.raw_sss].hist = << NewEntry >> \o @,
                            ![loc.raw_sss].bads = ResetMegBads(a.st_only, @)]
    /\ ret' = loc.raw_sss
    /\ pc' = "done"
    /\ UNCHANGED << raw, err, a, loc, gh, inputAtCall >>
    /\ UNCHANGED la

\* ------------------------------------------------------------ the caller
\* the caller passes the returned recording to a next call; its content is
\* that call's original data
Again(mode) ==
    /\ pc = "done"
    /\ Len(heap[ret].hist) <= (IF mode = "runs" THEN MaxRuns ELSE 1)
    /\ raw' = ret
    /\ heap' = [o \in ObjIds |->
                  IF o = ret
                  THEN [heap[ret] EXCEPT
                          !.data = [s \in 1..Len(@) |-> OrigSample]]
                  ELSE FreeObj]
    /\ inputAtCall' = heap'[ret]
    /\ ret' = 0
    /\ pc' = "idle"
    /\ err' = NoErr
    /\ a' = Args0
    /\ loc' = Loc0
    /\ gh' = Gh0
    /\ UNCHANGED la

\* the caller drops the failed call and may call again on the same input
Retry ==
    /\ pc = "error"
    /\ heap' = [o \in ObjIds |-> IF o = raw THEN heap[o] ELSE FreeObj]
    /\ pc' = "idle"
    /\ err' = NoErr
    /\ a' = Args0
    /\ loc' = Loc0
    /\ gh' = Gh0
    /\ UNCHANGED << raw, ret, inputAtCall >>
    /\ UNCHANGED la

Next(mode) ==
    \/ Triage(mode)
    \/ CheckSt(mode)
    \/ CheckPos(mode)
    \/ CheckInfo(mode)
    \/ Prepare(mode)
    \/ Setup(mode)
    \/ BeginBuffer(mode)
    \/ SubInterval(mode)
    \/ EndBuffer
    \/ Finish
    \/ Again(mode)
    \/ Retry

\* calls that vary the head-position array
Spec == Init /\ [][Next("pose")]_vars

\* calls that vary the other arguments, over sequences of runs
SpecRuns == InitN(MaxRunSamples) /\ [][Next("runs")]_vars

\* calls that vary the recording length and the buffer length
SpecLims == InitN(MaxLimSamples) /\ [][Next("lims")]_vars

\* calls that vary the regularization, the orders and the sensor types
SpecReg == InitN(MaxRegSamples) /\ [][Next("reg")]_vars

\* ------------------------------------------------ the numerical routines
\* Arrays are exact: a two-dimensional array is its shape and its entries,
\* integers, indexed from 1.
Mats(r, c, D) ==
    {[r |-> r, c |-> c, e |-> f] : f \in [(1..r) \X (1..c) -> D]}

\* sum over k of A[i, k] * B[k, j]
RECURSIVE Dot(_, _, _, _, _)
Dot(A, i, B, j, k) ==
    IF k = 0 THEN 0 ELSE A.e[i, k] * B.e[k, j] + Dot(A, i, B, j, k - 1)

\* np.dot(A, B)
MatMul(A, B) ==
    [r |-> A.r, c |-> B.c,
     e |-> [i \in 1..A.r, j \in 1..B.c |-> Dot(A, i, B, j, A.c)]]

\* A.T
Transpose(A) ==
    [r |-> A.c, c |-> A.r, e |-> [i \in 1..A.c, j \in 1..A.r |-> A.e[j, i]]]

\* A - B
MatSub(A, B) ==
    [r |-> A.r, c |-> A.c,
     e |-> [i \in 1..A.r, j \in 1..A.c |-> A.e[i, j] - B.e[i, j]]]

\* k * A
Scale(k, A) ==
    [r |-> A.r, c |-> A.c, e |-> [i \in 1..A.r, j \in 1..A.c |-> k * A.e[i, j]]]

Identity(n) ==
    [r |-> n, c |-> n,
     e |-> [i \in 1..n, j \in 1..n |-> IF i = j THEN 1 ELSE 0]]

Zeros(r, c) == [r |-> r, c |-> c, e |-> [i \in 1..r, j \in 1..c |-> 0]]

\* the row numbers a boolean mask selects among the first k, ascending
RECURSIVE Selected(_, _)
Selected(mask, k) ==
    IF k = 0 THEN << >>
    ELSE IF mask[k] THEN Append(Selected(mask, k - 1), k)
    ELSE Selected(mask, k - 1)

\* A[mask]: the rows of A a boolean mask selects
TakeRows(A, mask) ==
    LET sel == Selected(mask, A.r)
    IN  [r |-> Len(sel), c |-> A.c,
         e |-> [i \in 1..Len(sel), j \in 1..A.c |-> A.e[sel[i], j]]]

\* the entries the arrays are drawn from
Entries == {-1, 0, 1}

\* what linalg.qr (economic, of a basis _orth_overwrite returns) gives for
\* n time points and rank r: an array of orthonormal columns
OrthoCols(n, r) ==
    {Q \in Mats(n, r, Entries) : MatMul(Transpose(Q), Q) = Identity(r)}

\* what linalg.svd gives as Vh for k singular values in dimension r: an
\* array of orthonormal rows
OrthoRows(k, r) ==
    {V \in Mats(k, r, Entries) : MatMul(V, Transpose(V)) = Identity(k)}

\* the projector columns, twice as long
OverlapProjectorDoubled(Q_res, Vh_intersect, intersect_mask) ==
    Scale(2, MatMul(Q_res, Transpose(TakeRows(Vh_intersect, intersect_mask))))

\* _overlap_projector (1475-1478): V_principal, from the basis Q_res of the
\* residual, the right singular vectors of C_mat and the mask of the
\* singular values at or above corr
OverlapProjector(Q_res, Vh_intersect, intersect_mask) ==
    MatMul(Q_res, Transpose(TakeRows(Vh_intersect, intersect_mask)))

\* _do_tSSS (693): clean_data -= np.dot(np.dot(clean_data, t_proj), t_proj.T)
ApplyProjector(clean_data, t_proj) ==
    MatSub(clean_data,
           MatMul(MatMul(clean_data, t_proj), Transpose(t_proj)))

\* the determinant and the adjugate of a square array of one or two rows
Det(G) ==
    IF G.r = 1 THEN G.e[1, 1]
    ELSE G.e[1, 1] * G.e[2, 2] - G.e[1, 2] * G.e[2, 1]

Adj(G) ==
    IF G.r = 1 THEN Identity(1)
    ELSE [r |-> 2, c |-> 2,
          e |-> [i \in 1..2, j \in 1..2 |->
                   IF i = j THEN G.e[3 - i, 3 - i] ELSE 0 - G.e[i, j]]]

\* the transposed basis in place of its pseudoinverse
ColNormPinvTransposed(x) == [num |-> Transpose(x), den |-> 1]

\* _col_norm_pinv (918-928): the pseudoinverse of a basis of full column
\* rank, as the exact fraction num / den; the column norms divided out
\* before the SVD are multiplied back after it
ColNormPinv(x) ==
    LET G == MatMul(Transpose(x), x)
    IN  [num |-> MatMul(Adj(G), Transpose(x)), den |-> Det(G)]

\* the shapes (time points, rank of the residual, singular values) of the
\* projector inputs
TsssShapes == {sh \in {3} \X (0..2) \X (0..2) : sh[3] <= sh[2]}

\* the shapes (good channels, internal moments) of the bases
PinvShapes == {<< 2, 1 >>, << 2, 2 >>, << 3, 2 >>}

La0 ==
    [stage |-> "none", Q_res |-> Zeros(0, 0), Vh |-> Zeros(0, 0),
     mask |-> << >>, t_proj |-> Zeros(0, 0), clean |-> Zeros(0, 0),
     once |-> Zeros(0, 0), twice |-> Zeros(0, 0), S |-> Zeros(0, 0),
     pS |-> [num |-> Zeros(0, 0), den |-> 1], data |-> Zeros(0, 0),
     mm |-> Zeros(0, 0), back |-> Zeros(0, 0)]

\* a buffer of one channel to project, with the factors of its projector
InitTsss ==
    \E sh \in TsssShapes :
       \E Q \in OrthoCols(sh[1], sh[2]), V \in OrthoRows(sh[3], sh[2]),
          m \in [1..sh[3] -> BOOLEAN], x \in Mats(1, sh[1], Entries) :
          la = [La0 EXCEPT !.stage = "tsss", !.Q_res = Q, !.Vh = V,
                           !.mask = m, !.clean = x]

\* a basis of full column rank and one sample of good-channel data
InitPinv ==
    \E sh \in PinvShapes :
       \E S \in Mats(sh[1], sh[2], Entries), x \in Mats(sh[1], 1, Entries) :
          /\ Det(MatMul(Transpose(S), S)) # 0
          /\ la = [La0 EXCEPT !.stage = "pinv", !.S = S, !.data = x]

InitNum ==
    /\ heap = [o \in ObjIds |-> FreeObj]
    /\ raw = 0
    /\ ret = 0
    /\ pc = "numerical"
    /\ err = NoErr
    /\ a = Args0
    /\ loc = Loc0
    /\ gh = Gh0
    /\ inputAtCall = FreeObj
    /\ (InitTsss \/ InitPinv)

Idle == UNCHANGED << heap, raw, ret, pc, err, a, loc, gh, inputAtCall >>

\* _overlap_projector returns the projector columns
Project ==
    /\ la.stage = "tsss"
    /\ la' = [la EXCEPT !.stage = "projector",
                        !.t_proj = OverlapProjector(la.Q_res, la.Vh, la.mask)]
    /\ Idle

\* _do_tSSS applies them to the buffer
Clean ==
    /\ la.stage = "projector"
    /\ la' = [la EXCEPT !.stage = "once",
                        !.once = ApplyProjector(la.clean, la.t_proj)]
    /\ Idle

\* and again, to its own output
CleanAgain ==
    /\ la.stage = "once"
    /\ la' = [la EXCEPT !.stage = "twice",
                        !.twice = ApplyProjector(la.once, la.t_proj)]
    /\ Idle

\* _regularize (846): the pseudoinverse of the basis
Pinv ==
    /\ la.stage = "pinv"
    /\ la' = [la EXCEPT !.stage = "pinv_done", !.pS = ColNormPinv(la.S)]
    /\ Idle

\* the data through the pseudoinverse, then through the basis: back holds
\* pS.den times the result
RoundTrip ==
    /\ la.stage = "pinv_done"
    /\ la' = [la EXCEPT !.stage = "back",
                        !.mm = MatMul(la.pS.num, la.data),
                        !.back = MatMul(la.S, MatMul(la.pS.num, la.data))]
    /\ Idle

NextNum ==
    \/ Project
    \/ Clean
    \/ CleanAgain
    \/ Pinv
    \/ RoundTrip

\* the numerical routines on exact arrays
SpecNum == InitNum /\ [][NextNum]_vars

\* ------------------------------------------------------- regularization
\* _regularize and _regularize_in on their own: the inputs are the
\* expansion orders, the "fine" flag and, standing for the basis, the SNR
\* of every internal moment at every iteration of the sweep.

\* the largest internal order of the sweeps
MaxIntOrder == 3

\* _regularize_in (1716): the sweep may quit once ii > 10
QuitAfter == 10

\* _regularize_in (1716): ... when two values are below 0.95 of the maximum
QuitPercent == 95

\* _regularize_in (1730): the 0.98 of the maximum that is enough
KeepPercent == 98

\* the SNR values of a moment: log2(snr + 1) is 0, 2 or 4
SnrLevels == {0, 3, 15}

\* _get_n_moments: the number of moments of the orders 1..order
GetNMoments(order) == order * (order + 2)

RECURSIVE Log2(_)
Log2(x) == IF x <= 1 THEN 0 ELSE 1 + Log2(x \div 2)

\* np.log2(snr + 1.).sum() over the kept moments (1712)
RECURSIVE SumLog2(_, _)
SumLog2(snr, in_keepers) ==
    IF in_keepers = << >> THEN 0
    ELSE Log2(snr[Head(in_keepers)] + 1) + SumLog2(snr, Tail(in_keepers))

\* I_tots[ii] = 0.5 * np.log2(snr + 1.).sum() (1712)
ITot(snr, in_keepers) == SumLog2(snr, in_keepers) \div 2

\* np.max of a non-empty array
SeqMax(s) ==
    CHOOSE m \in {s[i] : i \in DOMAIN s} : \A i \in DOMAIN s : s[i] <= m

\* the position of the first largest SNR among the kept moments
ArgMax(snr, in_keepers) ==
    CHOOSE i \in DOMAIN in_keepers :
       /\ \A j \in DOMAIN in_keepers : snr[in_keepers[j]] <= snr[in_keepers[i]]
       /\ \A j \in 1..(i - 1) : snr[in_keepers[j]] < snr[in_keepers[i]]

\* np.argmin(snr) (1713): the position of the first smallest SNR among the
\* kept moments
ArgMin(snr, in_keepers) ==
    CHOOSE i \in DOMAIN in_keepers :
       /\ \A j \in DOMAIN in_keepers : snr[in_keepers[j]] >= snr[in_keepers[i]]
       /\ \A j \in 1..(i - 1) : snr[in_keepers[j]] > snr[in_keepers[i]]

\* list.pop(i) (1714), i a position from 1
Pop(s, i) == [j \in 1..(Len(s) - 1) |-> IF j < i THEN s[j] ELSE s[j + 1]]

\* a quit test that looks at the last value alone
PastPeakLast(I_tots, ii) ==
    /\ ii > QuitAfter
    /\ 100 * I_tots[ii + 1] < QuitPercent * SeqMax(I_tots)

\* the quit test of the sweep (1716): past 10 removals, the last two
\* values both below 0.95 of the largest
PastPeak(I_tots, ii) ==
    /\ ii > QuitAfter
    /\ \A j \in {ii - 1, ii} :
          100 * I_tots[j + 1] < QuitPercent * SeqMax(I_tots)

\* the sweep before its first iteration (1660-1665)
Sweep0(n_in) ==
    [ii |-> 0, I_tots |-> [i \in 1..n_in |-> 0],
     in_keepers |-> [i \in 1..n_in |-> i - 1], remove_order |-> << >>]

\* the loop of the sweep (1693-1717); table[ii] is the SNR of the moments
\* at iteration ii, and full = TRUE leaves the quit test out
RECURSIVE SweepLoop(_, _, _, _)
SweepLoop(st, table, n_in, full) ==
    IF st.ii >= n_in THEN st
    ELSE LET snr == table[st.ii]
             I == [st.I_tots EXCEPT ![st.ii + 1] = ITot(snr, st.in_keepers)]
             at == ArgMin(snr, st.in_keepers)
             nx == [ii |-> st.ii + 1, I_tots |-> I,
                    in_keepers |-> Pop(st.in_keepers, at),
                    remove_order |->
                        Append(st.remove_order, st.in_keepers[at])]
         IN  IF ~full /\ PastPeak(I, st.ii) THEN nx
             ELSE SweepLoop(nx, table, n_in, full)

\* the number of values up to the first at 0.98 of the largest, that one
\* counted
LimIdxInclusive(I_tots) ==
    CHOOSE i \in 1..Len(I_tots) :
       /\ 100 * I_tots[i] >= KeepPercent * SeqMax(I_tots)
       /\ \A j \in 1..(i - 1) :
             100 * I_tots[j] < KeepPercent * SeqMax(I_tots)

\* np.where(I_tots >= 0.98 * max_info)[0][0] (1729-1730)
LimIdx(I_tots) ==
    CHOOSE i \in 0..(Len(I_tots) - 1) :
       /\ 100 * I_tots[i + 1] >= KeepPercent * SeqMax(I_tots)
       /\ \A j \in 0..(i - 1) :
             100 * I_tots[j + 1] < KeepPercent * SeqMax(I_tots)

\* the selection from a finished sweep (1729-1731, 1741)
Selection(st) ==
    [err |-> NoErr, I_tots |-> st.I_tots, remove_order |-> st.remove_order,
     n_iter |-> st.ii, lim_idx |-> LimIdx(st.I_tots),
     in_removes |-> SubSeq(st.remove_order, 1, LimIdx(st.I_tots))]

\* what _regularize has of the sweep when it runs none (837)
NoSweep ==
    [err |-> NoErr, I_tots |-> << >>, remove_order |-> << >>, n_iter |-> 0,
     lim_idx |-> 0, in_removes |-> << >>]

\* _regularize_in (1649-1741); without internal moments np.max has
\* nothing to reduce (1729)
RegularizeIn(n_in, table) ==
    IF n_in = 0
    THEN [NoSweep EXCEPT !.err = Raise("ValueError", "max_info")]
    ELSE Selection(SweepLoop(Sweep0(n_in), table, n_in, FALSE))

\* np.setdiff1d (839-841): the sorted members of S that are not in R
RECURSIVE SetDiff1d(_, _)
SetDiff1d(S, R) ==
    IF S \ R = {} THEN << >>
    ELSE LET m == CHOOSE x \in S \ R : \A y \in S \ R : x <= y
         IN  << m >> \o SetDiff1d(S \ {m}, R)

\* the members of a list
Range(s) == {s[i] : i \in DOMAIN s}

\* ndarray.take(idx, axis=1) (845) of a basis held as the list of the
\* moments of its columns
Take(cols, idx) == [i \in DOMAIN idx |-> cols[idx[i] + 1]]

\* the retained moments in removal order of the sets, not sorted
RegMomentsUnsorted(n_in, n_out, in_removes, out_removes) ==
    SetDiff1d(n_in..(n_in + n_out - 1), out_removes)
        \o SetDiff1d(0..(n_in - 1), in_removes)

\* reg_moments (839-844): the kept internal moments, then the kept
\* external ones
RegMoments(n_in, n_out, in_removes, out_removes) ==
    SetDiff1d(0..(n_in - 1), in_removes)
        \o SetDiff1d(n_in..(n_in + n_out - 1), out_removes)

\* _regularize (823-852) on a basis with one column per moment; the rows
\* of the pseudoinverse (846) answer the columns it is given
RegularizeBasis(regularize, exp, mag_or_fine, table) ==
    LET n_in == GetNMoments(exp.int_order)
        n_out == GetNMoments(exp.ext_order)
        swept == IF regularize # "None" THEN RegularizeIn(n_in, table)
                 ELSE NoSweep
        out_removes == RegularizeOut(n_in, mag_or_fine)
        reg_moments ==
            RegMoments(n_in, n_out, Range(swept.in_removes), out_removes)
        S_decomp == Take([i \in 1..(n_in + n_out) |-> i - 1], reg_moments)
    IN  IF swept.err # NoErr
        THEN [err |-> swept.err, swept |-> swept, out_removes |-> {},
              reg_moments |-> << >>, n_use_in |-> 0, S_decomp |-> << >>,
              pS_decomp |-> << >>]
        ELSE [err |-> NoErr, swept |-> swept, out_removes |-> out_removes,
              reg_moments |-> reg_moments,
              n_use_in |-> Len(SetDiff1d(0..(n_in - 1),
                                         Range(swept.in_removes))),
              S_decomp |-> S_decomp, pS_decomp |-> S_decomp]

\* linalg.svd of a basis without columns (923): whether it raises or
\* returns empty factors depends on the scipy of the build
EmptySvd == {"raises", "returns"}

\* the ways a call of _regularize can end
RegularizeOutcomes(regularize, exp, mag_or_fine, table) ==
    LET r == RegularizeBasis(regularize, exp, mag_or_fine, table)
    IN  IF r.err = NoErr /\ r.reg_moments = << >>
        THEN {IF svd = "raises"
              THEN [r EXCEPT !.err = Raise("ValueError", "svd")]
              ELSE r : svd \in EmptySvd}
        ELSE {r}

\* the SNR of one moment through the sweep: v[1] before iteration b1,
\* v[2] before iteration b2, v[3] from there on
Steps(n_in) ==
    {[ii \in 0..(n_in - 1) |->
         IF ii < b[1] THEN v[1] ELSE IF ii < b[2] THEN v[2] ELSE v[3]] :
       v \in SnrLevels \X SnrLevels \X SnrLevels,
       b \in {c \in (0..n_in) \X (0..n_in) : c[1] <= c[2]}}

\* the SNR tables: every table of three moments; of more moments, those
\* with a single moment p of SNR above 0
SnrTables(n_in) ==
    IF n_in <= 3
    THEN [0..(n_in - 1) -> [0..(n_in - 1) -> SnrLevels]]
    ELSE {[ii \in 0..(n_in - 1) |->
             [k \in 0..(n_in - 1) |-> IF k = p THEN lv[ii] ELSE 0]] :
            p \in {0, n_in - 1}, lv \in Steps(n_in)}

\* no table: regularize=None reads none
NoTable == << >>

InitReg ==
    /\ heap = [o \in ObjIds |-> FreeObj]
    /\ raw = 0
    /\ ret = 0
    /\ pc = "regularization"
    /\ err = NoErr
    /\ a = Args0
    /\ loc = Loc0
    /\ gh = Gh0
    /\ inputAtCall = FreeObj
    /\ \E regularize \in {"None", "in"}, int_order \in {0, 1, MaxIntOrder},
          ext_order \in 0..1, mag_or_fine \in BOOLEAN :
          \E table \in IF regularize = "in"
                       THEN SnrTables(GetNMoments(int_order))
                       ELSE {NoTable} :
             la = [stage |-> "regularize", regularize |-> regularize,
                   exp |-> [int_order |-> int_order, ext_order |-> ext_order],
                   mag_or_fine |-> mag_or_fine, table |-> table]

\* one call of _regularize
RegularizeCall ==
    /\ la.stage = "regularize"
    /\ \E res \in RegularizeOutcomes(la.regularize, la.exp, la.mag_or_fine,
                                     la.table) :
          la' = [stage |-> "regularized", regularize |-> la.regularize,
                 exp |-> la.exp, mag_or_fine |-> la.mag_or_fine,
                 table |-> la.table, res |-> res]
    /\ Idle

NextSweep == RegularizeCall

\* _regularize on the bases the tables stand for
SpecSweep == InitReg /\ [][NextSweep]_vars

\* ------------------------------------------------------------ _sss_basis
\* the columns of the basis: which (degree, order) is written where

\* the largest expansion order of the bases built
MaxOrder == 4

\* _deg_ord_idx: the column of (degree, order) within its block
DegOrdIdx(degree, order) == degree * degree + degree + order - 1

\* a column of np.empty (1109), never written
Unwritten == [n |-> 0, degree |-> NoneQ, order |-> 0]

\* an assignment to column idx of the view of S_tot that starts at column
\* lo and has n columns (1112-1113): a negative idx counts from the end of
\* the view, an idx outside it is an IndexError
ViewWrite(S, lo, n, idx, degree, order) ==
    IF idx >= n \/ idx < 0 - n THEN [S EXCEPT !.err = TRUE]
    ELSE LET col == IF idx >= 0 THEN lo + idx ELSE lo + n + idx
         IN  [S EXCEPT !.cols[col] =
                 [n |-> @.n + 1, degree |-> degree, order |-> order]]

\* the alpha and beta assignments of one (degree, order): S_in when
\* degree <= int_order, S_out when degree <= ext_order
WriteBoth(S, exp, degree, order) ==
    LET n_in == GetNMoments(exp.int_order)
        n_out == GetNMoments(exp.ext_order)
        idx == DegOrdIdx(degree, order)
        alpha == IF degree <= exp.int_order
                 THEN ViewWrite(S, 0, n_in, idx, degree, order)
                 ELSE S
    IN  IF degree <= exp.ext_order
        THEN ViewWrite(alpha, n_in, n_out, idx, degree, order)
        ELSE alpha

\* every degree has its column of order 0
OrderZeroColumnAlways(degree) == TRUE

\* the column of order 0 is written for degree > 0 only (1143)
OrderZeroColumn(degree) == degree > 0

\* the orders and an empty S_tot (1106-1113)
InitBasis ==
    /\ heap = [o \in ObjIds |-> FreeObj]
    /\ raw = 0
    /\ ret = 0
    /\ pc = "sss_basis"
    /\ err = NoErr
    /\ a = Args0
    /\ loc = Loc0
    /\ gh = Gh0
    /\ inputAtCall = FreeObj
    /\ \E int_order \in 0..MaxOrder, ext_order \in 0..MaxOrder :
          la = [stage |-> "basis",
                exp |-> [int_order |-> int_order, ext_order |-> ext_order],
                degree |-> 0, order |-> 0,
                S_tot |-> [err |-> FALSE,
                           cols |-> [c \in 0..(GetNMoments(int_order)
                                       + GetNMoments(ext_order) - 1) |->
                                       Unwritten]]]

\* where an iteration leaves the call: in the loop, or at the IndexError
\* of one of its assignments
AfterWrites(S) == IF S.err THEN "IndexError" ELSE "basis"

\* the start of the iteration for one degree (1134-1158): its column of
\* order 0
BasisDegree ==
    /\ la.stage = "basis"
    /\ la.order = 0
    /\ la.degree <= Max(la.exp.int_order, la.exp.ext_order)
    /\ LET S == IF OrderZeroColumn(la.degree)
                THEN WriteBoth(la.S_tot, la.exp, la.degree, 0)
                ELSE la.S_tot
       IN  la' = [la EXCEPT
                    !.stage = AfterWrites(S),
                    !.S_tot = S,
                    !.degree = IF la.degree >= 1 THEN la.degree
                               ELSE la.degree + 1,
                    !.order = IF la.degree >= 1 THEN 1 ELSE 0]
    /\ Idle

\* one order of the degree (1159-1216): the real column, then the
\* imaginary one
BasisOrder ==
    /\ la.stage = "basis"
    /\ la.order >= 1
    /\ LET S == WriteBoth(WriteBoth(la.S_tot, la.exp, la.degree, la.order),
                          la.exp, la.degree, 0 - la.order)
       IN  la' = [la EXCEPT
                    !.stage = AfterWrites(S),
                    !.S_tot = S,
                    !.degree = IF la.order = la.degree THEN la.degree + 1
                               ELSE la.degree,
                    !.order = IF la.order = la.degree THEN 0
                              ELSE la.order + 1]
    /\ Idle

\* return S_tot (1217)
BasisReturn ==
    /\ la.stage = "basis"
    /\ la.order = 0
    /\ la.degree > Max(la.exp.int_order, la.exp.ext_order)
    /\ la' = [la EXCEPT !.stage = "returned"]
    /\ Idle

NextBasis ==
    \/ BasisDegree
    \/ BasisOrder
    \/ BasisReturn

\* _sss_basis for the orders up to MaxOrder
SpecBasis == InitBasis /\ [][NextBasis]_vars

\* _get_degrees_orders (1263-1277): the (degree, order) of every internal
\* column; an entry is the last the loops assign to it, the order of -order
\* after the one of order, and 0 where they assign none
GetDegreesOrders(order) ==
    LET W == {w \in (1..order) \X ((0 - order)..order) :
                 w[2] <= w[1] /\ 0 - w[2] <= w[1]}
        Abs(x) == IF x < 0 THEN 0 - x ELSE x
        Before(v, w) ==
            \/ v[1] < w[1]
            \/ v[1] = w[1] /\ Abs(v[2]) < Abs(w[2])
            \/ v[1] = w[1] /\ Abs(v[2]) = Abs(w[2]) /\ v[2] >= w[2]
        At(ii) == {w \in W : DegOrdIdx(w[1], w[2]) = ii}
    IN  [ii \in 0..(GetNMoments(order) - 1) |->
           IF At(ii) = {} THEN << 0, 0 >>
           ELSE CHOOSE w \in At(ii) : \A v \in At(ii) : Before(v, w)]

\* ================================================================= claims
\* the buffers (1-based) whose range [read_lims[b], read_lims[b+1]) holds
\* the sample with 1-based number s
BuffersOf(s) ==
    {b \in 1..(Len(loc.read_lims) - 1) :
        loc.read_lims[b] < s /\ s <= loc.read_lims[b + 1]}

\* buffer b has been written back to raw_sss._data
Processed(b) == b < loc.ii \/ pc \in {"finish", "done"}

\* C1: once the buffer limits are computed they start at 0, end at the
\* number of samples and increase strictly, so every sample lies in exactly
\* one buffer; and at every moment a sample has been written exactly once, by
\* the buffer that holds it, if that buffer is done, and not at all otherwise.
C1_LimitsPartitionAndOwnRange ==
    loc.read_lims # << >> =>
        LET r == loc.read_lims
            n == NSamples(loc.raw_sss)
        IN  /\ Len(r) >= 2
            /\ r[1] = 0
            /\ r[Len(r)] = n
            /\ \A i \in 1..(Len(r) - 1) : r[i] < r[i + 1]
            /\ \A s \in 1..n :
                  /\ Cardinality(BuffersOf(s)) = 1
                  /\ \A b \in BuffersOf(s) :
                        LET m == heap[loc.raw_sss].data[s].meg
                        IN  IF Processed(b) THEN m.w = 1 /\ m.by = b
                            ELSE m.w = 0 /\ m.by = 0

\* C1 witness: a run completes with at least two buffers, the last of them
\* longer than the first because a remainder was folded into it
C1_Witness ==
    /\ pc = "done"
    /\ Len(loc.read_lims) >= 3
    /\ loc.read_lims[Len(loc.read_lims)]
          - loc.read_lims[Len(loc.read_lims) - 1] > loc.read_lims[2]

\* the sub-intervals last returned by _trans_starts_stops_quats are each
\* non-empty and follow one another from 0 to len without gap or overlap
Tiles(segs, len) ==
    /\ Len(segs) >= 1
    /\ segs[1].rel_start = 0
    /\ segs[Len(segs)].rel_stop = len
    /\ \A i \in 1..Len(segs) : segs[i].rel_start < segs[i].rel_stop
    /\ \A i \in 1..(Len(segs) - 1) : segs[i].rel_stop = segs[i + 1].rel_start

\* C2: for every buffer and every head-position array that _check_pos
\* accepted, the sub-intervals tile the buffer and no assertion of
\* _trans_starts_stops_quats fails.
C2_SubIntervalsTileNoAssert ==
    /\ err.cls # "AssertionError"
    /\ loc.tssq # NoTssq =>
          Tiles(loc.tssq.segs,
                loc.read_lims[loc.ii + 1] - loc.read_lims[loc.ii])

BufLen(b) == loc.read_lims[b + 1] - loc.read_lims[b]

NBuffers == Len(loc.read_lims) - 1

\* C3: with d the buffer length in force (the requested length, capped at the
\* recording length), every buffer but the last has length d, the last has
\* at least d and fewer than 2 d samples, there are floor(n / d) buffers, and
\* a buffer is shorter than the requested length only when the whole
\* recording is.
C3_RemainderFolded ==
    loc.read_lims # << >> =>
        LET n == NSamples(loc.raw_sss)
            d == loc.st_duration
        IN  /\ d = Min(n, gh.requested)
            /\ \A b \in 1..(NBuffers - 1) : BufLen(b) = d
            /\ d <= BufLen(NBuffers) /\ BufLen(NBuffers) < 2 * d
            /\ NBuffers = n \div d
            /\ \A b \in 1..NBuffers :
                  BufLen(b) < gh.requested => n < gh.requested

\* C3 witness: a remainder shorter than the buffer length exists and the run
\* completes with several buffers
C3_Witness ==
    /\ pc = "done"
    /\ NBuffers >= 2
    /\ NSamples(loc.raw_sss) % loc.st_duration # 0

\* the head-position entries whose sample index lies inside the recording
InRange ==
    {i \in 1..Len(a.pos.idx) :
        0 <= a.pos.idx[i] /\ a.pos.idx[i] < NSamples(loc.raw_sss)}

\* the movement-compensation loop of lines 474-508 runs
LoopRuns == ~a.st_only \/ loc.st_when = "after"

SamePose == \A i, j \in 1..Len(a.pos.q) : a.pos.q[i] = a.pos.q[j]

\* C4 as claimed: a head-position array whose entries all carry the same pose
\* makes the buffer loop compute one decomposition at most.
C4_OneDecompositionForOnePose ==
    (pc = "done" /\ a.pos.given /\ SamePose) => gh.n_loop <= 1

\* C4 as amended: in a completed run the movement-compensation loop has
\* computed one decomposition for each head-position entry inside the
\* recording, equal poses or not, and none when the loop does not run; tSSS
\* before movement compensation adds one per buffer when head positions
\* are given.
C4_OneDecompositionPerEntry ==
    pc = "done" =>
        /\ gh.n_loop = IF LoopRuns THEN Cardinality(InRange) ELSE 0
        /\ gh.n_st = IF a.tsss /\ loc.st_when = "before" /\ a.pos.given
                     THEN NBuffers ELSE 0

\* C4 witness: a completed run over two in-range entries of one pose, two
\* decompositions computed in the loop
C4_Witness ==
    /\ pc = "done"
    /\ a.pos.given /\ SamePose
    /\ Cardinality(InRange) = 2
    /\ gh.n_loop = 2

\* the pose in force at the 0-based sample j: that of the last entry at or
\* before j inside the recording, else the recording's own dev_head_t
PoseInForce(j) ==
    LET before == {i \in InRange : a.pos.idx[i] <= j}
    IN  IF before = {} THEN inputAtCall.dev_head_t
        ELSE a.pos.q[CHOOSE i \in before : \A k \in before : k <= i]

\* C5: a sub-interval that carries its own pose is projected with the
\* decomposition of that pose, and every sample written by the SSS
\* reconstruction was reconstructed with the decomposition of the pose in
\* force at that sample, never with that of an earlier pose.
C5_OwnPoseDecomposition ==
    /\ gh.app.trans # NoneQ => gh.app.used = gh.app.trans
    /\ (loc.read_lims # << >> /\ ~a.st_only) =>
          \A s \in 1..NSamples(loc.raw_sss) :
             heap[loc.raw_sss].data[s].meg.w = 1 =>
                heap[loc.raw_sss].data[s].meg.sss = PoseInForce(s - 1)

\* C5 witness: a sub-interval with a pose other than the cached one has
\* been projected, in a later buffer than the first
C5_Witness ==
    /\ pc \in {"sub", "endbuf"}
    /\ loc.ii >= 2
    /\ gh.app.trans # NoneQ
    /\ gh.app.cached \in Poses
    /\ gh.app.cached # gh.app.trans

Stages == {"sss_info", "max_st", "sss_cal", "sss_ctc"}

\* the stages the call in progress performs, as _check_info is told them
Doing ==
    (IF ~a.st_only THEN {"sss_info"} ELSE {})
    \cup (IF a.tsss THEN {"max_st"} ELSE {})
    \cup (IF ~a.st_only /\ a.cal # "none" THEN {"sss_cal"} ELSE {})
    \cup (IF ~a.st_only /\ a.ctc # "none" THEN {"sss_ctc"} ELSE {})

Reapply == {"reapply_sss", "reapply_tsss", "reapply_cal", "reapply_ctc"}

\* C6: over sequences of runs no recording's processing history holds a
\* stage twice; a call that is past _check_info, up to its return, performs
\* no stage that the history of its input holds; and a call that asked for
\* such a stage has ended in RuntimeError before the recording was copied.
C6_NoStageTwice ==
    /\ \A o \in ObjIds, st \in Stages :
          Cardinality({i \in 1..Len(heap[o].hist) : heap[o].hist[i][st]}) <= 1
    /\ (pc = "prepare" \/ gh.copied) =>
          \A i \in 1..Len(heap[raw].hist), st \in Doing :
             ~heap[raw].hist[i][st]
    /\ err.at \in Reapply =>
          /\ err.cls = "RuntimeError"
          /\ ~gh.copied
          /\ ret = 0
          /\ \E i \in 1..Len(heap[raw].hist), st \in Doing :
                heap[raw].hist[i][st]

\* C6 witness: after an SSS run and a tSSS-only run on its output, a third
\* call that asks for tSSS again is refused
C6_Witness ==
    /\ pc = "error"
    /\ err.at = "reapply_tsss"
    /\ Len(heap[raw].hist) = 2
    /\ heap[raw].hist[1].max_st
    /\ heap[raw].hist[2].sss_info

\* the time column of the head_pos argument increases strictly
TimesAscend ==
    \A i, j \in 1..Len(a.head_pos.rows) :
       i < j => a.head_pos.rows[i].t < a.head_pos.rows[j].t

\* C7: a head-position array whose time column repeats or decreases ends the
\* call in ValueError (the one of line 754 when the head frame is in use)
\* with no copy of the recording made and no buffer processed.
C7_NonAscendingRejected ==
    (a.head_pos.kind = "array" /\ ~TimesAscend) =>
        /\ pc = "error"
        /\ err.cls = "ValueError"
        /\ a.head_frame => err.at = "pos_order"
        /\ ~gh.copied
        /\ gh.nbuf = 0
        /\ heap[CopyTarget(raw)] = FreeObj

\* C7 witness: an array with a repeated time has been refused
C7_Witness ==
    /\ pc = "error"
    /\ err.at = "pos_order"
    /\ Len(a.head_pos.rows) = 2
    /\ a.head_pos.rows[1].t = a.head_pos.rows[2].t

\* the time of the last sample, in ticks
TLast == TOff + (NSamples(raw) - 1) * TicksPerSample

\* C8 as claimed: an array with a time before the first sample or after the
\* last sample ends the call in an error.
C8_OutOfRangeRejected ==
    (a.head_pos.kind = "array"
     /\ \E i \in 1..Len(a.head_pos.rows) :
           a.head_pos.rows[i].t < TOff \/ a.head_pos.rows[i].t > TLast) =>
        pc = "error"

\* C8 as amended: an otherwise well-formed array with a time earlier than
\* the first sample by more than 1 ms and a sample period is refused with
\* the ValueError of line 758 before the recording is copied; an array whose
\* times are all at most 1 ms before the first sample, however late, is not
\* refused by _check_pos.
C8_OnlyEarlyTimesRejected ==
    (a.head_pos.kind = "array" /\ a.head_frame /\ TimesAscend) =>
        /\ (\E i \in 1..Len(a.head_pos.rows) :
               a.head_pos.rows[i].t < TOff - TolTicks - TicksPerSample) =>
              /\ pc = "error"
              /\ err = Raise("ValueError", "pos_early")
              /\ ~gh.copied
              /\ gh.nbuf = 0
        /\ (\A i \in 1..Len(a.head_pos.rows) :
               a.head_pos.rows[i].t >= TOff - TolTicks) =>
              err.at \notin {"pos_frame", "pos_type", "pos_shape",
                             "pos_order", "pos_early"}

\* C8 witness: a run completes although the array holds a time after the
\* last sample
C8_Witness ==
    /\ pc = "done"
    /\ a.head_pos.kind = "array"
    /\ \E i \in 1..Len(a.head_pos.rows) : a.head_pos.rows[i].t > TLast

\* C9: when the decomposition computed last has a condition number of at
\* least CondLimit, 'error' has ended the call in RuntimeError with nothing
\* returned, 'warning' has warned and not raised, 'ignore' has done neither;
\* below CondLimit nothing has been raised or warned; and the RuntimeError
\* is raised in no other case.
C9_BadConditionPolicy ==
    /\ (gh.cond >= CondLimit /\ a.bad_condition = "error") =>
          pc = "error" /\ err = CondErr /\ ret = 0 /\ ~gh.warned
    /\ (gh.cond >= CondLimit /\ a.bad_condition = "warning") =>
          gh.warned /\ err # CondErr
    /\ (gh.cond >= CondLimit /\ a.bad_condition = "ignore") =>
          ~gh.warned /\ err # CondErr
    /\ gh.cond < CondLimit => ~gh.warned /\ err # CondErr
    /\ err = CondErr => gh.cond >= CondLimit /\ a.bad_condition = "error"

\* C9 witness: with 'error', a decomposition recomputed for a pose after a
\* buffer was written is badly conditioned and ends the call
C9_Witness ==
    /\ pc = "error"
    /\ err = CondErr
    /\ gh.nbuf >= 1
    /\ gh.cond = CondLimit

\* C10: a call whose arguments hold a fatal condition has ended in an error
\* with no buffer processed, no sample written and nothing returned; and
\* the caller's recording is as it was when the call started, in every state
\* of every call.
C10_FatalBeforeBuffersInputIntact ==
    /\ heap[raw] = inputAtCall
    /\ gh.fatal # {} =>
          /\ pc = "error"
          /\ ret = 0
          /\ gh.nbuf = 0
          /\ \A o \in ObjIds :
                \A s \in 1..Len(heap[o].data) : heap[o].data[s].meg.w = 0
    /\ pc = "done" => ret # raw

\* C10 witness: a call fails on a cross-talk file with missing channels
\* after the recording has been copied
C10_Witness ==
    /\ pc = "error"
    /\ "cross_talk" \in gh.fatal
    /\ gh.copied
    /\ heap[CopyTarget(raw)] # FreeObj

\* C11: the recording a run returns has as many time samples as the one
\* passed in; it has nine channels more (six quaternion and translation
\* rows, three goodness rows) exactly when a head-position array was given
\* and st_only is False, and the channels of the input otherwise.
C11_SameSamplesNineChannels ==
    pc = "done" =>
        /\ NSamples(ret) = Len(inputAtCall.data)
        /\ heap[ret].nchan_pos = inputAtCall.nchan_pos
              + (IF a.head_pos.kind = "array" /\ ~a.st_only
                 THEN 6 + 3 ELSE 0)

\* C11 witness: a run with head positions completes and returns several
\* samples with the nine channels added, each sample carrying a pose
C11_Witness ==
    /\ pc = "done"
    /\ a.head_pos.kind = "array" /\ ~a.st_only
    /\ NSamples(ret) >= 2
    /\ heap[ret].nchan_pos = 9
    /\ \A s \in 1..NSamples(ret) : heap[ret].data[s].pos \in Poses

\* C12: a run with st_only returns, in every buffer, the input MEG data
\* with the temporal projection applied and nothing else: no SSS
\* reconstruction and no cross-talk correction went into any sample, no
\* head-position channel was added or written, whether tSSS came before or
\* after the movement-compensation loop; the bad MEG channels are as in the
\* input and the new history entry has only its tSSS block filled.
C12_StOnlyProjectionOnly ==
    (pc = "done" /\ a.st_only) =>
        /\ \A s \in 1..NSamples(ret) :
              /\ heap[ret].data[s].meg.st
              /\ heap[ret].data[s].meg.sss = NoneQ
              /\ ~heap[ret].data[s].meg.ctc
              /\ heap[ret].data[s].meg.w = 1
              /\ heap[ret].data[s].pos = inputAtCall.data[s].pos
        /\ heap[ret].nchan_pos = inputAtCall.nchan_pos
        /\ heap[ret].bads = inputAtCall.bads
        /\ heap[ret].hist[1] = HistEntry(FALSE, TRUE, FALSE, FALSE)

\* C12 witness: a tSSS-only run with tSSS after the movement-compensation
\* loop, head positions and a cross-talk file completes on a recording with
\* bad MEG channels
C12_Witness ==
    /\ pc = "done"
    /\ a.st_only
    /\ loc.st_when = "after"
    /\ a.pos.given
    /\ a.ctc = "ok"
    /\ inputAtCall.bads
    /\ gh.n_loop >= 1

\* the external column indices (from 0) of the expansion in use
External == loc.exp.n_in..(loc.exp.n_in + loc.exp.n_out - 1)

\* C13: a run that returns has put exactly one entry in front of the
\* processing history of its input, whose entries follow unchanged and in
\* order, and until it returns the copy carries the history of the input;
\* without st_only the new entry has a non-empty SSS block that records the
\* orders and a components mask of length n_in + n_out that is 1 exactly at
\* the moments retained by the decomposition computed first (line 419),
\* nfree being the number of internal moments among them.
C13_OneEntryFirstWithMask ==
    /\ (gh.copied /\ pc # "done") =>
          heap[loc.raw_sss].hist = inputAtCall.hist
    /\ pc = "done" =>
          LET h == heap[ret].hist
              n == loc.exp.n_in + loc.exp.n_out
          IN  /\ Len(h) = Len(inputAtCall.hist) + 1
              /\ \A i \in 1..Len(inputAtCall.hist) :
                    h[i + 1] = inputAtCall.hist[i]
              /\ h[1].sss_info = ~a.st_only
              /\ ~a.st_only =>
                    /\ h[1].in_order = loc.exp.int_order
                    /\ h[1].out_order = loc.exp.ext_order
                    /\ Len(h[1].components) = n
                    /\ \A i \in 0..(n - 1) :
                          h[1].components[i + 1] =
                              IF i \in gh.reg0 THEN 1 ELSE 0
                    /\ h[1].nfree =
                          Cardinality({i \in gh.reg0 : i < loc.exp.n_in})

\* C13 witness: an SSS run with regularization on the output of a
\* tSSS-only run returns; its last decomposition retained other moments
\* than its first, and some internal moment was removed from the first
C13_Witness ==
    /\ pc = "done"
    /\ ~a.st_only
    /\ a.regularize = "in"
    /\ Len(inputAtCall.hist) = 1
    /\ loc.reg_moments # gh.reg0
    /\ loc.exp.n_out = 3
    /\ heap[ret].hist[1].nfree < loc.exp.n_in

\* C16: once _get_mf_picks has run, the call has ended in the ValueError
\* of line 871, with no buffer processed, when the requested moments
\* n_in + n_out outnumber the good MEG sensors, and that error is not
\* raised when they are as many or fewer.
C16_TooManyMomentsRejected ==
    gh.copied =>
        LET n_bases == loc.exp.n_in + loc.exp.n_out
        IN  /\ n_bases > loc.n_good =>
                  /\ pc = "error"
                  /\ err = Raise("ValueError", "n_bases")
                  /\ gh.nbuf = 0
            /\ n_bases <= loc.n_good => err.at # "n_bases"

\* C16 witness: a run with exactly as many good sensors as requested
\* moments, internal and external, returns
C16_Witness ==
    /\ pc = "done"
    /\ loc.exp.n_out > 0
    /\ loc.exp.n_in + loc.exp.n_out = loc.n_good

\* C20: after every decomposition, with regularize None and with 'in', the
\* out components marked for removal are the column indices n_in, n_in + 1,
\* n_in + 2 when no sensor is flagged magnetometer or fine-calibrated and
\* none when one is, and the retained external moments are all the others.
C20_ExternalLowestThreeUnlessFine ==
    loc.read_lims # << >> =>
        LET lowest == {loc.exp.n_in, loc.exp.n_in + 1, loc.exp.n_in + 2}
            removed == IF loc.mag_or_fine THEN {} ELSE lowest
        IN  /\ loc.out_removes = removed
            /\ loc.reg_moments \cap External = External \ removed
            /\ gh.reg0 \cap External = External \ removed

\* C20 witness: with regularize='in', external order 1 and no sensor
\* flagged, a decomposition recomputed for a head position keeps no
\* external moment and not all internal ones
C20_Witness ==
    /\ pc = "done"
    /\ a.regularize = "in"
    /\ ~loc.mag_or_fine
    /\ loc.exp.n_out = 3
    /\ gh.n_loop >= 1
    /\ loc.reg_moments \cap External = {}
    /\ Cardinality(loc.reg_moments) < loc.exp.n_in

\* the sub-intervals of loc.tssq are those of the buffer loc.ii
InBuffer == pc \in {"sub", "endbuf"}

\* C17: samples are written in increasing time order, a later one only
\* when every earlier one is; inside a buffer only the first sub-interval
\* may have pose None, and it has it exactly when no head-position index
\* equals the buffer's first sample; and a leading sub-interval of pose
\* None has been projected with the decomposition of the last head position
\* before the buffer, or with that of the recording's own dev_head_t when
\* there is none.
C17_TimeOrderLeadingNoneReuses ==
    /\ loc.raw_sss # 0 =>
          \A s, t \in 1..NSamples(loc.raw_sss) :
             (s < t /\ heap[loc.raw_sss].data[t].meg.w > 0) =>
                 heap[loc.raw_sss].data[s].meg.w > 0
    /\ InBuffer =>
          LET segs == loc.tssq.segs
          IN  /\ \A k \in 2..Len(segs) : segs[k].trans # NoneQ
              /\ segs[1].trans = NoneQ <=>
                    ~\E i \in 1..Len(a.pos.idx) : a.pos.idx[i] = Start
              /\ (loc.k = 2 /\ segs[1].trans = NoneQ) =>
                    /\ gh.app.trans = NoneQ
                    /\ gh.app.used = PoseInForce(Start)

\* C17 witness: in the second buffer a leading sub-interval of pose None
\* has been projected with the decomposition of a head position of the
\* first buffer, other than the recording's own
C17_Witness ==
    /\ pc \in {"sub", "endbuf"}
    /\ loc.ii = 2
    /\ loc.k = 2
    /\ loc.tssq.segs[1].trans = NoneQ
    /\ gh.app.used \in Poses

\* C18: once the times of an accepted head-position array have been turned
\* into sample indices (line 403), the indices increase strictly.
C18_IndicesUniqueAscending ==
    (a.pos.given /\ loc.read_lims # << >>) =>
        \A i, j \in 1..Len(a.pos.idx) :
           i < j => a.pos.idx[i] < a.pos.idx[j]

Orthonormal(P) == MatMul(Transpose(P), P) = Identity(P.c)

\* C14: the projector columns _overlap_projector returns are orthonormal,
\* and applying the projection of _do_tSSS with them to its own output
\* leaves the data as the first application left them.
C14_ProjectionIdempotent ==
    /\ la.stage \in {"projector", "once", "twice"} => Orthonormal(la.t_proj)
    /\ la.stage = "twice" => la.twice = la.once

\* C14 witness: two projector columns, a buffer the first application
\* changed without emptying it, and a second application done
C14_Witness ==
    /\ la.stage = "twice"
    /\ la.t_proj.c = 2
    /\ la.once # la.clean
    /\ la.once # Zeros(1, 3)
    /\ la.twice = la.once

\* C15 as claimed: the data multiplied by the pseudoinverse and then by the
\* basis are the data.
C15_RoundTripReproduces ==
    la.stage = "back" => la.back = Scale(la.pS.den, la.data)

\* good-channel data that are a combination of the basis columns
InColumnSpace ==
    \E m \in Mats(la.S.c, 1, -2..2) : la.data = MatMul(la.S, m)

\* C15 as amended: the round trip gives the data back when they are a
\* combination of the basis columns, as all data are when there are as
\* many good channels as moments; for any data what it loses is orthogonal
\* to every basis column, and the moments it passes through reproduce the
\* coefficients of such a combination.
C15_RoundTripProjects ==
    la.stage = "back" =>
        /\ InColumnSpace => la.back = Scale(la.pS.den, la.data)
        /\ la.S.r = la.S.c => la.back = Scale(la.pS.den, la.data)
        /\ MatMul(Transpose(la.S),
                  MatSub(Scale(la.pS.den, la.data), la.back))
              = Zeros(la.S.c, 1)
        /\ \A m \in Mats(la.S.c, 1, -2..2) :
              la.data = MatMul(la.S, m) => la.mm = Scale(la.pS.den, m)

\* C15 witness: more good channels than moments, data other than zero in
\* the span of a basis whose columns are not orthogonal, given back
C15_Witness ==
    /\ la.stage = "back"
    /\ la.S.r = 3 /\ la.S.c = 2
    /\ la.data # Zeros(la.S.r, 1)
    /\ InColumnSpace
    /\ MatMul(Transpose(la.S), la.S).e[1, 2] # 0
    /\ la.back = Scale(la.pS.den, la.data)

\* the sweep of a call with regularize='in' that returned
Swept ==
    /\ la.stage = "regularized"
    /\ la.regularize = "in"
    /\ la.res.err = NoErr

\* the internal moments still kept when iteration ii starts
KeptAt(ii) ==
    (0..(GetNMoments(la.exp.int_order) - 1))
        \ {la.res.swept.remove_order[j] : j \in 1..ii}

\* the largest information value of the iterations that ran
MaxSeen ==
    CHOOSE v \in {la.res.swept.I_tots[i] : i \in 1..la.res.swept.n_iter} :
       \A i \in 1..la.res.swept.n_iter : la.res.swept.I_tots[i] <= v

\* C21: with regularize='in' every iteration of the sweep removes one
\* internal moment whose SNR is the lowest among those still kept; the
\* number k of moments finally removed is the least number of removals
\* after which the information is at least 98% of the largest seen in the
\* sweep, and the removed moments are the first k in removal order.
C21_WorstRemovedUntil98Percent ==
    Swept =>
       LET r == la.res.swept
           k == Len(r.in_removes)
       IN  /\ Len(r.remove_order) = r.n_iter
           /\ \A ii \in 0..(r.n_iter - 1) :
                 /\ r.remove_order[ii + 1] \in KeptAt(ii)
                 /\ \A m \in KeptAt(ii) :
                       la.table[ii][r.remove_order[ii + 1]] <= la.table[ii][m]
           /\ k < r.n_iter
           /\ 100 * r.I_tots[k + 1] >= 98 * MaxSeen
           /\ \A j \in 0..(k - 1) : 100 * r.I_tots[j + 1] < 98 * MaxSeen
           /\ r.in_removes = SubSeq(r.remove_order, 1, k)

\* a sweep of three moments that removes the last first, then the first,
\* and selects the one removal that reaches the largest information
C21_Witness ==
    /\ Swept
    /\ la.exp.int_order = 1
    /\ la.res.swept.remove_order[1] = 2
    /\ la.res.swept.remove_order[2] = 0
    /\ la.res.swept.in_removes = << 2 >>

\* the same sweep run over all n_in iterations, and its selection
FullSweep ==
    Selection(SweepLoop(Sweep0(GetNMoments(la.exp.int_order)), la.table,
                        GetNMoments(la.exp.int_order), TRUE))

\* the sweep quit before its last iteration
QuitEarly == la.res.swept.n_iter < GetNMoments(la.exp.int_order)

Regularized == la.stage = "regularized" /\ la.res.err = NoErr

\* C23: the list of retained moments _regularize returns is strictly
\* increasing; its first n_use_in entries are internal moments (below n_in)
\* and all the others external ones (from n_in up to n_in + n_out - 1);
\* the regularized basis has one column, and the pseudoinverse one row,
\* for each entry of the list, in the order of the list.
C23_RetainedListSortedInternalFirst ==
    Regularized =>
       LET r == la.res
           n_in == GetNMoments(la.exp.int_order)
           n_out == GetNMoments(la.exp.ext_order)
       IN  /\ \A i \in 1..(Len(r.reg_moments) - 1) :
                 r.reg_moments[i] < r.reg_moments[i + 1]
           /\ r.n_use_in <= Len(r.reg_moments)
           /\ \A i \in DOMAIN r.reg_moments :
                 IF i <= r.n_use_in
                 THEN r.reg_moments[i] \in 0..(n_in - 1)
                 ELSE r.reg_moments[i] \in n_in..(n_in + n_out - 1)
           /\ Len(r.S_decomp) = Len(r.reg_moments)
           /\ Len(r.pS_decomp) = Len(r.reg_moments)
           /\ \A i \in DOMAIN r.reg_moments :
                 /\ r.S_decomp[i] = r.reg_moments[i]
                 /\ r.pS_decomp[i] = r.reg_moments[i]

\* a basis of three internal and three external moments that loses an
\* internal moment other than the last and keeps its external ones
C23_Witness ==
    /\ Regularized
    /\ la.exp = [int_order |-> 1, ext_order |-> 1]
    /\ la.mag_or_fine
    /\ la.res.swept.in_removes = << 1 >>
    /\ la.res.reg_moments = << 0, 2, 3, 4, 5 >>

\* C30 (as stated): for every basis and both regularization modes the
\* retained internal-moment count n_use_in is at least 1.
C30_SomeInternalMomentKept ==
    Regularized => la.res.n_use_in >= 1

\* C30 (amended): of a basis with internal moments (int_order >= 1) at
\* least one is retained: regularize='in' removes at most n_in - 1 of them
\* and regularize=None none; of a basis without internal moments
\* (int_order = 0) only regularize=None returns, with n_use_in = 0.
C30_SomeInternalMomentKeptIfAny ==
    Regularized =>
       LET n_in == GetNMoments(la.exp.int_order)
           removed == Len(la.res.swept.in_removes)
       IN  /\ la.res.n_use_in = n_in - removed
           /\ la.regularize = "None" => removed = 0
           /\ n_in >= 1 => (removed <= n_in - 1 /\ la.res.n_use_in >= 1)
           /\ n_in = 0 => (la.regularize = "None" /\ la.res.n_use_in = 0)

\* a sweep of three moments that removes two of them and keeps one
C30_Witness ==
    /\ Regularized
    /\ la.regularize = "in"
    /\ la.exp.int_order = 1
    /\ Len(la.res.swept.in_removes) = 2
    /\ la.res.n_use_in = 1

\* the (degree, order) pairs of the orders 1..L
Pairs(L) ==
    {w \in (1..L) \X ((0 - L)..L) : w[2] <= w[1] /\ 0 - w[2] <= w[1]}

\* the columns lo..lo+L(L+2)-1 answer the pairs of 1..L one to one, the
\* pair (d, m) at lo + d*d + d + m - 1, each written once
BlockOneToOne(lo, L) ==
    /\ \A c \in lo..(lo + L * (L + 2) - 1) :
          /\ la.S_tot.cols[c].n = 1
          /\ << la.S_tot.cols[c].degree, la.S_tot.cols[c].order >> \in Pairs(L)
          /\ c = lo + la.S_tot.cols[c].degree * la.S_tot.cols[c].degree
                    + la.S_tot.cols[c].degree + la.S_tot.cols[c].order - 1
    /\ \A w \in Pairs(L) :
          Cardinality({c \in lo..(lo + L * (L + 2) - 1) :
                          << la.S_tot.cols[c].degree,
                             la.S_tot.cols[c].order >> = w}) = 1

\* C24: _sss_basis never assigns a column twice nor outside a block, and
\* in the basis it returns the (degree, order) pairs with
\* 1 <= degree <= L and -degree <= order <= degree answer one to one the
\* columns 0..L(L+2)-1 of the internal block (L = int_order) and of the
\* external block after it (L = ext_order), (d, m) at d*d + d + m - 1: each
\* of the n_in + n_out columns is written exactly once, none is of degree
\* 0, and _get_degrees_orders names the same pair for every internal column.
C24_ColumnsWrittenOnce ==
    /\ la.stage # "IndexError"
    /\ la.stage \in {"basis", "returned"} =>
          \A c \in DOMAIN la.S_tot.cols : la.S_tot.cols[c].n <= 1
    /\ la.stage = "returned" =>
          /\ DOMAIN la.S_tot.cols =
                0..(la.exp.int_order * (la.exp.int_order + 2)
                    + la.exp.ext_order * (la.exp.ext_order + 2) - 1)
          /\ BlockOneToOne(0, la.exp.int_order)
          /\ BlockOneToOne(la.exp.int_order * (la.exp.int_order + 2),
                           la.exp.ext_order)
          /\ \A c \in DOMAIN la.S_tot.cols : la.S_tot.cols[c].degree # 0
          /\ \A c \in 0..(la.exp.int_order * (la.exp.int_order + 2) - 1) :
                GetDegreesOrders(la.exp.int_order)[c] =
                   << la.S_tot.cols[c].degree, la.S_tot.cols[c].order >>

\* a returned basis of 15 internal and 8 external columns
C24_Witness ==
    /\ la.stage = "returned"
    /\ la.exp = [int_order |-> 3, ext_order |-> 2]
    /\ la.S_tot.cols[14] = [n |-> 1, degree |-> 3, order |-> 3]
    /\ la.S_tot.cols[15] = [n |-> 1, degree |-> 1, order |-> -1]

\* C25: in every mode, st_only with st_fixed included, the pose given to
\* the leading sub-interval of a buffer that starts before the buffer's
\* first head position - the pose that enters the buffer's average pose
\* and the head-position rows - is the pose in force at the end of the
\* buffer before, and the recording's own dev_head_t only when no head
\* position came earlier.
C25_LeadingPoseIsLastBefore ==
    (/\ InBuffer
     /\ a.pos.given
     /\ loc.tssq.segs # << >>
     /\ loc.tssq.segs[1].trans = NoneQ)
       => loc.tssq.segs[1].quat = PoseInForce(Start)

\* C26: for every st_duration the validation accepts
\* (0 < st_duration <= duration of the data) the buffer length in samples
\* is at least 1 and at most the number of samples, so the buffer limits
\* are always generated and there is at least one buffer.
C26_BufferLengthAtLeastOne ==
    /\ a.tsss => (1 <= a.st /\ a.st <= NSamples(raw))
    /\ err.at # "arange"
    /\ (a.tsss /\ pc \in {"buffer", "sub", "endbuf", "finish"}) =>
          Len(loc.read_lims) >= 2

\* C27: a run with st_only returns a recording whose device-to-head
\* transform is the input's, no relocation having been applied to its data;
\* the returned transform is the destination's only when the MEG data have
\* been reconstructed at the destination pose.
C27_TransformFollowsReconstruction ==
    pc = "done" =>
       /\ a.st_only => heap[ret].dev_head_t = inputAtCall.dev_head_t
       /\ heap[ret].dev_head_t = DestPose =>
             \A s \in 1..NSamples(ret) : heap[ret].data[s].meg.sss # NoneQ

\* C28: whenever head-position channels are added to the output, every
\* sample of them that a buffer has written back holds the pose record of
\* the sub-interval that contains the sample - the head position in force
\* there - in every buffer; none is left with the uninitialized values of
\* the buffer's array or the zeros the channels were created with.
C28_PoseChannelsWrittenEverywhere ==
    (loc.raw_sss # 0 /\ loc.pos_picks > 0) =>
       /\ \A s \in 1..NSamples(loc.raw_sss) :
             heap[loc.raw_sss].data[s].meg.w >= 1 =>
                /\ heap[loc.raw_sss].data[s].pos
                      \notin {PosEmpty, PosZero, NoneQ}
                /\ heap[loc.raw_sss].data[s].pos = PoseInForce(s - 1)
       /\ pc = "done" =>
             \A s \in 1..NSamples(loc.raw_sss) :
                heap[loc.raw_sss].data[s].meg.w = 1

\* a returned recording of several buffers with the channels added: its
\* first sample precedes every head position and holds the recording's own
\* pose, its last sample is in a later buffer than the head position it holds
C28_Witness ==
    /\ pc = "done"
    /\ loc.pos_picks > 0
    /\ Len(loc.read_lims) >= 3
    /\ heap[ret].data[1].pos = DevPose
    /\ heap[ret].data[NSamples(ret)].pos \in Poses
    /\ \A i \in 1..Len(a.pos.idx) :
          a.pos.idx[i] < loc.read_lims[Len(loc.read_lims) - 1]

\* the stage a refusal of the guard names
Refused ==
    [reapply_sss |-> "sss_info", reapply_tsss |-> "max_st",
     reapply_cal |-> "sss_cal", reapply_ctc |-> "sss_ctc"]

\* the input of the call comes from runs that applied no tSSS
InputWithoutTsss ==
    /\ heap[raw].hist # << >>
    /\ \A i \in 1..Len(heap[raw].hist) : ~heap[raw].hist[i].max_st

\* the input of the call comes from runs that applied tSSS only
InputTsssOnly ==
    /\ heap[raw].hist # << >>
    /\ \A i \in 1..Len(heap[raw].hist) :
          /\ heap[raw].hist[i].max_st
          /\ ~heap[raw].hist[i].sss_info
          /\ ~heap[raw].hist[i].sss_cal
          /\ ~heap[raw].hist[i].sss_ctc

\* C29: the guard against reprocessing refuses a call only for a stage the
\* call performs and the history of its input holds: on the output of a run
\* without tSSS a tSSS-only call (st_only, st_duration given) is not
\* refused, and on the output of a tSSS-only run an SSS call without tSSS
\* (st_only False, st_duration None) is not refused.
C29_GuardRefusesAppliedStagesOnly ==
    /\ err.at \in Reapply =>
          /\ Refused[err.at] \in Doing
          /\ \E i \in 1..Len(heap[raw].hist) :
                heap[raw].hist[i][Refused[err.at]]
    /\ (InputWithoutTsss /\ a.st_only /\ a.tsss) => err.at \notin Reapply
    /\ (InputTsssOnly /\ ~a.st_only /\ ~a.tsss) => err.at \notin Reapply

\* a tSSS-only call has run to its end on the output of an SSS run without
\* tSSS: the history holds both entries, the newer first
C29_Witness ==
    /\ pc = "done"
    /\ InputWithoutTsss
    /\ a.st_only /\ a.tsss
    /\ Len(heap[ret].hist) = 2
    /\ heap[ret].hist[1] = HistEntry(FALSE, TRUE, FALSE, FALSE)
    /\ heap[ret].hist[2].sss_info
====
